---------------------------- MODULE Spec2Model ----------------------------
(***************************************************************************)
(* A model of the authentication backend: the validation helpers, the      *)
(* users table, AuthService (register, login, token issue / verify /       *)
(* refresh, logout), the AuthController handlers of both transport         *)
(* variants and the verifyToken gate in front of the protected routes.     *)
(*                                                                         *)
(* Strings are sequences of one-character strings, so that trim(),         *)
(* toLowerCase() and the e-mail regular expression are computed and not    *)
(* assumed.  A request field is a JavaScript value: a string or undefined. *)
(***************************************************************************)
EXTENDS Integers, Sequences, FiniteSets, TLC

(***************************************************************************)
(* JavaScript values and strings                                           *)
(***************************************************************************)
Str(s) == [type |-> "string", s |-> s]
Undefined == [type |-> "undefined", s |-> <<>>]

\* !v for a string or undefined: the empty string and undefined are falsy
Falsy(v) == v.type # "string" \/ Len(v.s) = 0

IsSpace(c) == c \in {" ", "\t"}

ToLowerChar(c) ==
    CASE c = "A" -> "a"
      [] c = "B" -> "b"
      [] c = "C" -> "c"
      [] OTHER -> c

toLowerCase(s) == [i \in 1..Len(s) |-> ToLowerChar(s[i])]

RECURSIVE trimStart(_)
trimStart(s) ==
    IF Len(s) > 0 /\ IsSpace(s[1]) THEN trimStart(Tail(s)) ELSE s

RECURSIVE trimEnd(_)
trimEnd(s) ==
    IF Len(s) > 0 /\ IsSpace(s[Len(s)])
    THEN trimEnd(SubSeq(s, 1, Len(s) - 1))
    ELSE s

trim(s) == trimEnd(trimStart(s))

Rep(c, n) == [i \in 1..n |-> c]

(***************************************************************************)
(* utils/validation                                                        *)
(***************************************************************************)
MinPasswordLength == 6
MaxPasswordLength == 128

\* /^[^\s@]+@[^\s@]+\.[^\s@]+$/
emailRegex(s) ==
    /\ \A j \in 1..Len(s) : ~IsSpace(s[j])
    /\ \E i \in 2..Len(s) :
          /\ s[i] = "@"
          /\ \A j \in 1..Len(s) : s[j] = "@" => j = i
          /\ \E d \in (i + 2)..(Len(s) - 1) : s[d] = "."

validateEmail(email) ==
    IF Falsy(email) \/ email.type # "string"
    THEN FALSE
    ELSE emailRegex(toLowerCase(trim(email.s)))

validatePassword(password) ==
    IF Falsy(password) \/ password.type # "string"
    THEN [valid |-> FALSE, message |-> "Password is required"]
    ELSE IF Len(password.s) < MinPasswordLength
    THEN [valid |-> FALSE, message |-> "Password must be at least 6 characters long"]
    ELSE IF Len(password.s) > MaxPasswordLength
    THEN [valid |-> FALSE, message |-> "Password must be less than 128 characters long"]
    ELSE [valid |-> TRUE, message |-> ""]

FieldError(f, m) == [field |-> f, message |-> m]

emailErrors(data) ==
    IF Falsy(data.email)
    THEN << FieldError("email", "Email is required") >>
    ELSE IF ~validateEmail(data.email)
    THEN << FieldError("email", "Please enter a valid email address") >>
    ELSE << >>

\* mutant: validation stops at the first field that fails
validateRegistrationData_FirstOnly(data) ==
    IF emailErrors(data) # << >>
    THEN emailErrors(data)
    ELSE IF ~validatePassword(data.password).valid
    THEN << FieldError("password", validatePassword(data.password).message) >>
    ELSE << >>

\* mutant: login checks the password as registration does
validateLoginData_ChecksLength(data) ==
    emailErrors(data)
    \o (IF ~validatePassword(data.password).valid
        THEN << FieldError("password", validatePassword(data.password).message) >>
        ELSE << >>)

validateRegistrationData(data) ==
    emailErrors(data)
    \o (IF ~validatePassword(data.password).valid
        THEN << FieldError("password", validatePassword(data.password).message) >>
        ELSE << >>)

validateLoginData(data) ==
    emailErrors(data)
    \o (IF Falsy(data.password)
        THEN << FieldError("password", "Password is required") >>
        ELSE << >>)

\* mutant: the address is trimmed but keeps its case
sanitizeEmail_TrimOnly(email) ==
    IF Falsy(email) \/ email.type # "string"
    THEN << >>
    ELSE trim(email.s)

\* mutant: the email is lower-cased but not trimmed
sanitizeEmail_LowerOnly(email) ==
    IF Falsy(email) \/ email.type # "string"
    THEN << >>
    ELSE toLowerCase(email.s)

sanitizeEmail(email) ==
    IF Falsy(email) \/ email.type # "string"
    THEN << >>
    ELSE toLowerCase(trim(email.s))


(***************************************************************************)
(* Configuration, inputs and bounds                                        *)
(***************************************************************************)
\* AuthService constructor: the defaults of the two secrets and expiries
jwtSecret == "change_me"
\* mutant: one secret signs both kinds
jwtRefreshSecret_Shared == jwtSecret

jwtRefreshSecret == "change_me_refresh"
\* '15m' and '7d' in seconds, the unit of a token's iat and exp
accessTokenExpiry == 900
refreshTokenExpiry == 604800

NodeEnvs == {"development", "production"}

\* the two AuthController variants of the repository
Transports == {"body", "cookie"}

\* concurrent register requests in flight
NumProcs == 2
Procs == 1..NumProcs

\* ids handed out by the SERIAL column are capped at MaxUserId
MaxUserId == 3

\* token pairs issued by login and refresh are capped at MaxPairs
MaxPairs == 2

EmailA == << "a", "@", "b", ".", "c" >>
EmailAVariant == << " ", "A", "@", "B", ".", "c", " " >>
EmailX == << "c", "@", "a", ".", "b" >>
EmailBad == << "a", "b", ".", "c" >>

RawEmails == { Str(EmailA), Str(EmailAVariant), Str(EmailX), Str(EmailBad), Undefined }

PwSecret == << "s", "e", "c", "r", "e", "t" >>
PwOther == << "w", "r", "o", "n", "g", "1" >>
PwShort == << "s", "e", "c" >>
PwLong == Rep("x", MaxPasswordLength + 1)

RawPasswords == { Str(PwSecret), Str(PwOther), Str(PwShort), Str(PwLong), Str(<< >>) }

Requests == [email : RawEmails, password : RawPasswords]

\* the requests of the concurrent registrations: two spellings of one address, a
\* second address and a malformed one
RaceRequests ==
    [email : { Str(EmailA), Str(EmailAVariant), Str(EmailX), Str(EmailBad) },
     password : { Str(PwSecret) }]

VARIABLES
    NODE_ENV,     \* process.env.NODE_ENV
    users,        \* the rows of table users
    nextId,       \* the next value of the SERIAL sequence of users.id
    now,          \* the clock, in seconds
    reg,          \* per concurrent register request: where it is and what it holds
    registered,   \* history: the credentials of every register answered 201
    issued,       \* history: the token pairs handed out so far
    last,         \* the last request answered by login, refresh, logout or a gated route
    transport,    \* which AuthController is deployed: tokens in the body or in cookies
    maxRequests,  \* rateLimiter(maxRequests, windowMs): admitted requests per window
    windowMs,     \* rateLimiter(maxRequests, windowMs): length of the window, ms
    DISABLE_RATE_LIMIT,  \* process.env.DISABLE_RATE_LIMIT === 'true'
    requests,     \* the limiter's Map: address -> timestamps of admitted requests
    crowd,        \* keys of the Map that belong to addresses not followed here
    clock,        \* Date.now(), ms
    admitted,     \* history: per address, when the limiter called next()
    limited,      \* the last request the limiter saw and its answer
    entry,        \* the file node was started with: app.js or the legacy index.js
    server,       \* where the process is between its start and app.listen
    selectOne,    \* the outcome of the connectivity check SELECT 1, once made
    errorLog,       \* what the start has written with console.error
    later,          \* history kept for sessions: << pair, op >> once op has succeeded for
                    \* the user of an issued pair that was already handed out
    ADMIN_EMAILS,   \* process.env.ADMIN_EMAILS, absent or a string
    passage,        \* the last run of a middleware that may call next(): what it was
                    \* given and what it did
    hinted,         \* history, per address: the Retry-After hints it has been given
    inflight,       \* per concurrent request to the limiter: arrived and not yet handled
    routed          \* the last request the routers dispatched: its path, whether the
                    \* limiter ran for it, and the handler it reached

limiterVars ==
    << maxRequests, windowMs, DISABLE_RATE_LIMIT, requests, crowd, clock, admitted, limited >>

serverVars == << entry, server, selectOne, errorLog >>

gateVars == << ADMIN_EMAILS, passage >>

flowVars == << hinted, inflight, routed >>

vars ==
    << NODE_ENV, users, nextId, now, reg, registered, issued, last, transport, limiterVars,
       serverVars, later, gateVars, flowVars >>

(***************************************************************************)
(* Errors (AuthService.js 212-233, jsonwebtoken, pg)                       *)
(***************************************************************************)
NoError == [name |-> "", message |-> "", errors |-> << >>, code |-> ""]

ValidationError(message, errors) ==
    [name |-> "ValidationError", message |-> message, errors |-> errors, code |-> ""]

AuthenticationError(message) ==
    [name |-> "AuthenticationError", message |-> message, errors |-> << >>, code |-> ""]

TokenExpiredError(message) ==
    [name |-> "TokenExpiredError", message |-> message, errors |-> << >>, code |-> ""]

Error(message) ==
    [name |-> "Error", message |-> message, errors |-> << >>, code |-> ""]

\* what pg's query rejects with: the connection is down, or the UNIQUE(email)
\* constraint refuses the row (SQLSTATE 23505)
PgConnectionError == Error("Connection terminated unexpectedly")

PgUniqueViolation ==
    [name |-> "error",
     message |-> "duplicate key value violates unique constraint \"users_email_key\"",
     errors |-> << >>, code |-> "23505"]

(***************************************************************************)
(* models/User and the users table                                         *)
(***************************************************************************)
\* bcrypt.hash(password, 10) and bcrypt.compare
bcryptHash(password) == [alg |-> "bcrypt", rounds |-> 10, plain |-> password.s]

bcryptCompare(password, hash) == hash.plain = password.s

\* SELECT id, email, password, created_at FROM users WHERE email = $1;
\* null (here the empty sequence) when there is no row or when the query throws
findByEmail(table, email, dbOk) ==
    IF dbOk /\ \E u \in table : u.email = email
    THEN << CHOOSE u \in table : u.email = email >>
    ELSE << >>

\* SELECT id, email, created_at FROM users WHERE id = $1: no password column
findById(table, id, dbOk) ==
    IF dbOk /\ \E u \in table : u.id = id
    THEN << [(CHOOSE u \in table : u.id = id) EXCEPT !.password = << >>] >>
    ELSE << >>

\* user.verifyPassword: false when bcrypt.compare throws
verifyPassword(user, password) ==
    IF password.type # "string" \/ user.password = << >>
    THEN FALSE
    ELSE bcryptCompare(password, user.password[1])

\* mutant: the projection keeps every field of the row
toSafeObject_AllFields(user) == user

toSafeObject(user) == [id |-> user.id, email |-> user.email, created_at |-> user.created_at]

\* the checks User.create makes before it touches the table
createCheck(email, password) ==
    IF Len(email) = 0 \/ ~validateEmail(Str(email))
    THEN Error("Invalid email format")
    ELSE IF Falsy(password) \/ Len(password.s) < MinPasswordLength
    THEN Error("Password must be at least 6 characters")
    ELSE NoError

\* mutant: the table without its UNIQUE(email) constraint
uniqueViolation_NoConstraint(table, email) == FALSE

\* the UNIQUE(email) constraint of the table, evaluated by INSERT
uniqueViolation(table, email) == \E u \in table : u.email = email

\* INSERT INTO users (email, password) ... RETURNING id, email, created_at
insertRow(id, email, hashed, at) ==
    [id |-> id, email |-> email, password |-> << hashed >>, created_at |-> at]


(***************************************************************************)
(* HTTP responses                                                          *)
(***************************************************************************)
\* a JSON body; an absent field is the empty sequence (or the empty string)
BodyBase ==
    [success |-> FALSE, message |-> "", errors |-> << >>, user |-> << >>,
     accessToken |-> << >>, refreshToken |-> << >>, code |-> "", error |-> << >>,
     valid |-> << >>, authenticated |-> << >>]

\* no response sent (yet)
NoResponse == [status |-> 0, body |-> BodyBase, cookies |-> << >>]

Response(status, body, cookies) == [status |-> status, body |-> body, cookies |-> cookies]

\* error: process.env.NODE_ENV === 'development' ? error.message : undefined
devError(env, error) == IF env = "development" THEN << error.message >> ELSE << >>

\* utils/cookies generateCookieOptions (COOKIE_DOMAIN unset)
generateCookieOptions(env) ==
    [httpOnly |-> TRUE,
     secure |-> (env = "production"),
     sameSite |-> IF env # "production" THEN "lax" ELSE "none",
     path |-> "/"]

\* res.cookie(name, value, {...options, maxAge}); value '' is the empty sequence
Cookie(name, value, env, maxAge) ==
    [name |-> name, value |-> value, options |-> generateCookieOptions(env),
     maxAge |-> maxAge]

clearAuthCookies(env) ==
    << Cookie("accessToken", << >>, env, 0), Cookie("refreshToken", << >>, env, 0) >>

(***************************************************************************)
(* AuthService.register and AuthController.register                        *)
(***************************************************************************)
\* the catch block of AuthService.register: what it throws for what it caught
registerCatch(error) ==
    IF error.name = "ValidationError"
    THEN error
    ELSE IF error.message = "User already exists"
    THEN ValidationError("Registration failed",
             << FieldError("email", "An account with this email already exists") >>)
    ELSE Error("Registration failed. Please try again.")

\* AuthController.register, the service having thrown
registerFailed(env, error) ==
    IF error.name = "ValidationError"
    THEN Response(400, [BodyBase EXCEPT !.message = "Validation failed",
                                        !.errors = error.errors], << >>)
    ELSE Response(500, [BodyBase EXCEPT !.message = "Registration failed. Please try again.",
                                        !.error = devError(env, error)], << >>)

\* mutant: a successful registration also sets a session cookie
registerCreated_SetsCookie(user) ==
    Response(201,
        [BodyBase EXCEPT !.success = TRUE,
             !.message = "Account created successfully! You can now log in with your credentials.",
             !.user = << toSafeObject(user) >>],
        << Cookie("accessToken", << toSafeObject(user) >>, "production", 0) >>)

\* AuthController.register, the service having returned
registerCreated(user) ==
    Response(201,
        [BodyBase EXCEPT !.success = TRUE,
             !.message = "Account created successfully! You can now log in with your credentials.",
             !.user = << toSafeObject(user) >>],
        << >>)

Idle == [pc |-> "idle", body |-> [email |-> Undefined, password |-> Undefined],
         email |-> << >>, hashed |-> << >>, caught |-> NoError, response |-> NoResponse]

\* the request ends: the error User.create or the validation threw is mapped by the
\* service's catch and then by the controller
RegisterThrow(p, email, error) ==
    reg' = [reg EXCEPT ![p] =
              [Idle EXCEPT !.pc = "done", !.email = email, !.caught = error,
                           !.response = registerFailed(NODE_ENV, registerCatch(error))]]

\* POST /register up to the answer of User.findByEmail: validation, sanitizing,
\* User.create's own checks and the lookup
RegisterLookupStep(p, data, dbOk) ==
    /\ reg[p].pc \in {"idle", "done"}
    /\ LET validationErrors == validateRegistrationData(data)
           email == sanitizeEmail(data.email)
           existingUser == findByEmail(users, email, dbOk)
       IN  IF Len(validationErrors) > 0
           THEN RegisterThrow(p, << >>, ValidationError("Validation failed", validationErrors))
           ELSE IF createCheck(email, data.password) # NoError
           THEN RegisterThrow(p, email, createCheck(email, data.password))
           ELSE IF existingUser # << >>
           THEN RegisterThrow(p, email, Error("User already exists"))
           ELSE reg' = [reg EXCEPT ![p] =
                          [Idle EXCEPT !.pc = "hash", !.body = data, !.email = email]]
    /\ UNCHANGED << NODE_ENV, gateVars, flowVars, transport, limiterVars, serverVars, later, users, nextId, now, registered, issued >>

RegisterLookup(p, data, dbOk) == RegisterLookupStep(p, data, dbOk) /\ UNCHANGED last

\* await bcrypt.hash(password, 10)
RegisterHash(p) ==
    /\ reg[p].pc = "hash"
    /\ reg' = [reg EXCEPT ![p].pc = "insert",
                          ![p].hashed = << bcryptHash(reg[p].body.password) >>]
    /\ UNCHANGED << NODE_ENV, gateVars, flowVars, transport, limiterVars, serverVars, later, users, nextId, now, registered, issued, last >>

\* mutant: the row is written before the failure is noticed and is not taken back
RegisterInsert_KeepsRow(p, dbOk) ==
    /\ reg[p].pc = "insert"
    /\ nextId <= MaxUserId
    /\ LET data == reg[p].body
           row == insertRow(nextId, reg[p].email, reg[p].hashed[1], now)
       IN  IF ~dbOk
           THEN /\ RegisterThrow(p, reg[p].email, PgConnectionError)
                /\ users' = users \cup { row }
                /\ nextId' = nextId + 1
                /\ UNCHANGED registered
           ELSE IF uniqueViolation(users, reg[p].email)
           THEN /\ RegisterThrow(p, reg[p].email, PgUniqueViolation)
                /\ nextId' = nextId + 1
                /\ UNCHANGED << users, registered >>
           ELSE /\ users' = users \cup { row }
                /\ nextId' = nextId + 1
                /\ registered' = registered \cup
                      { [email |-> data.email, password |-> data.password,
                         user |-> toSafeObject(row)] }
                /\ reg' = [reg EXCEPT ![p] =
                             [Idle EXCEPT !.pc = "done", !.email = reg[p].email,
                                          !.response = registerCreated(row)]]
    /\ UNCHANGED << NODE_ENV, gateVars, flowVars, transport, limiterVars, serverVars, later, now, issued, last >>

\* the INSERT and the rest of the request.  The sequence value is consumed also by
\* an INSERT that the constraint refuses.
RegisterInsert(p, dbOk) ==
    /\ reg[p].pc = "insert"
    /\ nextId <= MaxUserId
    /\ LET data == reg[p].body
           row == insertRow(nextId, reg[p].email, reg[p].hashed[1], now)
       IN  IF ~dbOk
           THEN /\ RegisterThrow(p, reg[p].email, PgConnectionError)
                /\ UNCHANGED << users, nextId, registered >>
           ELSE IF uniqueViolation(users, reg[p].email)
           THEN /\ RegisterThrow(p, reg[p].email, PgUniqueViolation)
                /\ nextId' = nextId + 1
                /\ UNCHANGED << users, registered >>
           ELSE /\ users' = users \cup { row }
                /\ nextId' = nextId + 1
                /\ registered' = registered \cup
                      { [email |-> data.email, password |-> data.password,
                         user |-> toSafeObject(row)] }
                /\ reg' = [reg EXCEPT ![p] =
                             [Idle EXCEPT !.pc = "done", !.email = reg[p].email,
                                          !.response = registerCreated(row)]]
    /\ UNCHANGED << NODE_ENV, gateVars, flowVars, transport, limiterVars, serverVars, later, now, issued, last >>


(***************************************************************************)
(* Tokens (jsonwebtoken)                                                   *)
(***************************************************************************)
NoClaims == [userId |-> 0, email |-> << >>, iat |-> 0, exp |-> 0]

\* the signature is the pair of the key and the signed claims
Signature(claims, secret) == [key |-> secret, over |-> claims]

\* jwt.sign(payload, secret, { expiresIn }) at time at
jwtSign(payload, secret, expiresIn, at) ==
    LET claims == [userId |-> payload.userId, email |-> payload.email,
                   iat |-> at, exp |-> at + expiresIn]
    IN  [claims |-> claims, sig |-> Signature(claims, secret)]

\* a string that is no JWT at all
GarbageToken == [claims |-> NoClaims, sig |-> [key |-> "", over |-> NoClaims]]

\* mutant: the expiry is looked at before the signature
jwtVerify_ExpiryFirst(token, secret, at) ==
    IF at >= token.claims.exp
    THEN [decoded |-> NoClaims,
          error |-> [name |-> "jwt.TokenExpiredError", message |-> "jwt expired",
                     errors |-> << >>, code |-> ""]]
    ELSE IF token.sig # Signature(token.claims, secret)
    THEN [decoded |-> NoClaims,
          error |-> [name |-> "jwt.JsonWebTokenError", message |-> "invalid signature",
                     errors |-> << >>, code |-> ""]]
    ELSE [decoded |-> token.claims, error |-> NoError]

\* jwt.verify(token, secret) at time at: the signature first, then the expiry
jwtVerify(token, secret, at) ==
    IF token.sig # Signature(token.claims, secret)
    THEN [decoded |-> NoClaims,
          error |-> [name |-> "jwt.JsonWebTokenError", message |-> "invalid signature",
                     errors |-> << >>, code |-> ""]]
    ELSE IF at >= token.claims.exp
    THEN [decoded |-> NoClaims,
          error |-> [name |-> "jwt.TokenExpiredError", message |-> "jwt expired",
                     errors |-> << >>, code |-> ""]]
    ELSE [decoded |-> token.claims, error |-> NoError]

\* error instanceof jwt.JsonWebTokenError: TokenExpiredError is its subclass
IsJsonWebTokenError(error) ==
    error.name \in {"jwt.JsonWebTokenError", "jwt.TokenExpiredError"}

\* mutant: the access token is signed with the refresh secret
generateTokens_RefreshSecret(user, at) ==
    LET payload == [userId |-> user.id, email |-> user.email]
    IN  [accessToken |-> jwtSign(payload, jwtRefreshSecret, accessTokenExpiry, at),
         refreshToken |-> jwtSign(payload, jwtRefreshSecret, refreshTokenExpiry, at)]

\* AuthService.generateTokens
generateTokens(user, at) ==
    LET payload == [userId |-> user.id, email |-> user.email]
    IN  [accessToken |-> jwtSign(payload, jwtSecret, accessTokenExpiry, at),
         refreshToken |-> jwtSign(payload, jwtRefreshSecret, refreshTokenExpiry, at)]

\* mutant: a single active session, a token is refused once a later one has been
\* issued to its user
verifyWith_LatestOnly(token, secret, expiredMessage, invalidMessage, table, at, dbOk) ==
    LET v == jwtVerify(token, secret, at)
        user == findById(table, v.decoded.userId, dbOk)
        superseded == \E pair \in issued :
                         /\ pair.accessToken.claims.userId = token.claims.userId
                         /\ pair.accessToken.claims.iat > token.claims.iat
    IN  IF v.error.name = "jwt.TokenExpiredError"
        THEN [user |-> << >>, error |-> TokenExpiredError(expiredMessage)]
        ELSE IF IsJsonWebTokenError(v.error) \/ superseded
        THEN [user |-> << >>, error |-> AuthenticationError(invalidMessage)]
        ELSE IF user = << >>
        THEN [user |-> << >>, error |-> AuthenticationError("User not found")]
        ELSE [user |-> user, error |-> NoError]

\* mutant: the user of a verified token is taken from its claims, the table is not read
verifyWith_NoLookup(token, secret, expiredMessage, invalidMessage, table, at, dbOk) ==
    LET v == jwtVerify(token, secret, at)
    IN  IF v.error.name = "jwt.TokenExpiredError"
        THEN [user |-> << >>, error |-> TokenExpiredError(expiredMessage)]
        ELSE IF IsJsonWebTokenError(v.error)
        THEN [user |-> << >>, error |-> AuthenticationError(invalidMessage)]
        ELSE [user |-> << [id |-> v.decoded.userId, email |-> v.decoded.email,
                           password |-> << >>, created_at |-> 0] >>,
              error |-> NoError]

\* mutant: the catch block tests for JsonWebTokenError before TokenExpiredError
verifyWith_InvalidFirst(token, secret, expiredMessage, invalidMessage, table, at, dbOk) ==
    LET v == jwtVerify(token, secret, at)
        user == findById(table, v.decoded.userId, dbOk)
    IN  IF IsJsonWebTokenError(v.error)
        THEN [user |-> << >>, error |-> AuthenticationError(invalidMessage)]
        ELSE IF v.error.name = "jwt.TokenExpiredError"
        THEN [user |-> << >>, error |-> TokenExpiredError(expiredMessage)]
        ELSE IF user = << >>
        THEN [user |-> << >>, error |-> AuthenticationError("User not found")]
        ELSE [user |-> user, error |-> NoError]

\* the body and the catch block shared by verifyAccessToken and verifyRefreshToken
verifyWith(token, secret, expiredMessage, invalidMessage, table, at, dbOk) ==
    LET v == jwtVerify(token, secret, at)
        user == findById(table, v.decoded.userId, dbOk)
    IN  IF v.error.name = "jwt.TokenExpiredError"
        THEN [user |-> << >>, error |-> TokenExpiredError(expiredMessage)]
        ELSE IF IsJsonWebTokenError(v.error)
        THEN [user |-> << >>, error |-> AuthenticationError(invalidMessage)]
        ELSE IF user = << >>
        THEN [user |-> << >>, error |-> AuthenticationError("User not found")]
        ELSE [user |-> user, error |-> NoError]

verifyAccessToken(token, table, at, dbOk) ==
    verifyWith(token, jwtSecret, "Access token expired", "Invalid access token",
               table, at, dbOk)

verifyRefreshToken(token, table, at, dbOk) ==
    verifyWith(token, jwtRefreshSecret, "Refresh token expired", "Invalid refresh token",
               table, at, dbOk)

(***************************************************************************)
(* AuthService.login and AuthController.login                              *)
(***************************************************************************)
NoTokens == [accessToken |-> GarbageToken, refreshToken |-> GarbageToken]

\* mutant: an unknown address is told apart from a wrong password
noSuchUser_Telling == AuthenticationError("User not found")

\* what login throws when findByEmail returns null
noSuchUser == AuthenticationError("Invalid email or password")

\* what login throws when verifyPassword returns false
wrongPassword == AuthenticationError("Invalid email or password")

\* AuthService.login: the user and the tokens it returns, or the error it throws
login(credentials, table, at, dbOk) ==
    LET validationErrors == validateLoginData(credentials)
        email == sanitizeEmail(credentials.email)
        user == findByEmail(table, email, dbOk)
    IN  IF Len(validationErrors) > 0
        THEN [user |-> << >>, tokens |-> NoTokens,
              error |-> ValidationError("Validation failed", validationErrors)]
        ELSE IF user = << >>
        THEN [user |-> << >>, tokens |-> NoTokens, error |-> noSuchUser]
        ELSE IF ~verifyPassword(user[1], credentials.password)
        THEN [user |-> << >>, tokens |-> NoTokens, error |-> wrongPassword]
        ELSE [user |-> << toSafeObject(user[1]) >>,
              tokens |-> generateTokens(user[1], at),
              error |-> NoError]

AccessCookieMaxAge == 15 * 60 * 1000
RefreshCookieMaxAge == 7 * 24 * 60 * 60 * 1000

\* AuthController.login of the deployed variant
loginResponse(variant, env, result) ==
    IF result.error.name = "ValidationError"
    THEN Response(400, [BodyBase EXCEPT !.message = "Validation failed",
                                        !.errors = result.error.errors], << >>)
    ELSE IF result.error.name = "AuthenticationError"
    THEN Response(401, [BodyBase EXCEPT !.message = result.error.message], << >>)
    ELSE IF result.error # NoError
    THEN Response(500, [BodyBase EXCEPT !.message = "Login failed. Please try again.",
                                        !.error = devError(env, result.error)], << >>)
    ELSE IF variant = "body"
    THEN Response(200, [BodyBase EXCEPT !.success = TRUE, !.user = result.user,
                                        !.accessToken = << result.tokens.accessToken >>,
                                        !.refreshToken = << result.tokens.refreshToken >>,
                                        !.message = "Login successful"], << >>)
    ELSE Response(200, [BodyBase EXCEPT !.success = TRUE, !.user = result.user,
                                        !.message = "Login successful"],
                  << Cookie("accessToken", << result.tokens.accessToken >>, env,
                            AccessCookieMaxAge),
                     Cookie("refreshToken", << result.tokens.refreshToken >>, env,
                            RefreshCookieMaxAge) >>)

NoCredentials == [email |-> Undefined, password |-> Undefined]

\* the places a request can carry a token: the Authorization header (Bearer), the
\* cookies accessToken and refreshToken, the field refreshToken of the JSON body.
\* Each holds at most one token.
Request(authorization, cookieAccess, cookieRefresh, bodyRefresh) ==
    [authorization |-> authorization,
     cookies |-> [accessToken |-> cookieAccess, refreshToken |-> cookieRefresh],
     body |-> [refreshToken |-> bodyRefresh]]

NoRequest == Request(<< >>, << >>, << >>, << >>)

\* the record kept of the last request: what was sent, when, what the store
\* answered and what came back
Exchange(op, credentials, request, dbOk, found, registeredAs, response) ==
    [op |-> op, credentials |-> credentials, request |-> request, at |-> now,
     dbOk |-> dbOk, found |-> found, registeredAs |-> registeredAs,
     response |-> response]

NoExchange ==
    [op |-> "none", credentials |-> NoCredentials, request |-> NoRequest, at |-> 0,
     dbOk |-> TRUE, found |-> << >>, registeredAs |-> << >>, response |-> NoResponse]

\* a run of a middleware: the req.user it was given or has set, how often it called
\* next(), and the response it sent, if any
Passage(gate, request, user, next, response) ==
    [gate |-> gate, request |-> request, user |-> user, next |-> next,
     response |-> response]

NoPassage == Passage("", NoRequest, << >>, 0, NoResponse)

\* the environment of the gates, and no middleware has run
GateInit(lists) ==
    /\ ADMIN_EMAILS \in lists
    /\ passage = NoPassage

\* the users register answered 201 to for exactly these credentials
RegisteredAs(credentials) ==
    { r.user : r \in { x \in registered : /\ x.email = credentials.email
                                          /\ x.password = credentials.password } }

SetToSeq(S) == IF S = {} THEN << >> ELSE << CHOOSE x \in S : TRUE >>

\* mutant: a successful login rewrites the row of its user with a stamp
LoginExchange_StampsRow(credentials, dbOk) ==
    LET result == login(credentials, users, now, dbOk)
    IN  /\ result.error = NoError => Cardinality(issued \cup { result.tokens }) <= MaxPairs
        /\ issued' = IF result.error = NoError THEN issued \cup { result.tokens } ELSE issued
        /\ last' = Exchange("login", credentials, NoRequest, dbOk,
                            findByEmail(users, sanitizeEmail(credentials.email), dbOk),
                            SetToSeq(RegisteredAs(credentials)),
                            loginResponse(transport, NODE_ENV, result))
        /\ users' = IF result.error = NoError
                    THEN { IF u.id = result.user[1].id
                           THEN [u EXCEPT !.created_at = now + 1] ELSE u : u \in users }
                    ELSE users
        /\ UNCHANGED << NODE_ENV, gateVars, flowVars, transport, limiterVars, serverVars,
                        nextId, now, reg, registered >>

\* POST /login
LoginExchange(credentials, dbOk) ==
    LET result == login(credentials, users, now, dbOk)
    IN  /\ result.error = NoError => Cardinality(issued \cup { result.tokens }) <= MaxPairs
        /\ issued' = IF result.error = NoError THEN issued \cup { result.tokens } ELSE issued
        /\ last' = Exchange("login", credentials, NoRequest, dbOk,
                            findByEmail(users, sanitizeEmail(credentials.email), dbOk),
                            SetToSeq(RegisteredAs(credentials)),
                            loginResponse(transport, NODE_ENV, result))
        /\ UNCHANGED << NODE_ENV, gateVars, flowVars, transport, limiterVars, serverVars, users, nextId, now, reg, registered >>

Login(credentials, dbOk) == LoginExchange(credentials, dbOk) /\ UNCHANGED later

(***************************************************************************)
(* app.js and index.js: from the start of the process to app.listen        *)
(***************************************************************************)
Entries == {"app.js", "index.js"}

\* app.js: const isDev = process.env.NODE_ENV !== 'production'
isDev(env) == env # "production"

\* mutant: the check is lenient in production instead of in development
afterCheckFailed_Inverted(file, env) ==
    IF file = "app.js" /\ ~isDev(env)
    THEN [server |-> "port", errorLog |-> {}]
    ELSE [server |-> "exited",
          errorLog |-> {"Postgres connection: FAILED",
                      "Backend will exit. Please check your DB settings in .env"}]

\* the catch block around db.query('SELECT 1'): index.js, and app.js outside
\* development, log and call process.exit(1); app.js in development warns through
\* debug.warn and goes on
afterCheckFailed(file, env) ==
    IF file = "app.js" /\ isDev(env)
    THEN [server |-> "port", errorLog |-> {}]
    ELSE [server |-> "exited",
          errorLog |-> {"Postgres connection: FAILED",
                      "Backend will exit. Please check your DB settings in .env"}]

\* after a successful check: app.js in development looks for a free port first
afterCheckOk(file, env) == IF file = "app.js" /\ isDev(env) THEN "port" ELSE "listen"

\* app.js: configManager.validateConfig(), which logs what is missing, and exit(1)
\* when it fails
ValidateConfig(valid) ==
    /\ server = "config"
    /\ server' = IF valid THEN "check" ELSE "exited"
    /\ errorLog' = IF valid THEN errorLog
                          ELSE errorLog \cup {"Missing required environment variables"}
    /\ UNCHANGED << entry, selectOne, NODE_ENV, gateVars, flowVars, transport, limiterVars,
                    later, users, nextId, now, reg, registered, issued, last >>

\* startServer: await db.query('SELECT 1') and what follows in the same turn
CheckDatabase(reachable) ==
    /\ server = "check"
    /\ selectOne' = IF reachable THEN "ok" ELSE "failed"
    /\ server' = IF reachable THEN afterCheckOk(entry, NODE_ENV)
                              ELSE afterCheckFailed(entry, NODE_ENV).server
    /\ errorLog' = IF reachable THEN errorLog
                              ELSE errorLog \cup afterCheckFailed(entry, NODE_ENV).errorLog
    /\ UNCHANGED << entry, NODE_ENV, gateVars, flowVars, transport, limiterVars,
                    later, users, nextId, now, reg, registered, issued, last >>

\* app.js in development: configManager.findAvailablePort, exit(1) when it throws
FindPort(found) ==
    /\ server = "port"
    /\ server' = IF found THEN "listen" ELSE "exited"
    /\ errorLog' = IF found THEN errorLog ELSE errorLog \cup {"Could not find available port"}
    /\ UNCHANGED << entry, selectOne, NODE_ENV, gateVars, flowVars, transport, limiterVars,
                    later, users, nextId, now, reg, registered, issued, last >>

\* app.listen: the server listens, or the port is taken and the process dies of the
\* unhandled 'error' event
Listen(bound) ==
    /\ server = "listen"
    /\ server' = IF bound THEN "listening" ELSE "exited"
    /\ UNCHANGED << entry, selectOne, errorLog, NODE_ENV, gateVars, flowVars, transport, limiterVars,
                    later, users, nextId, now, reg, registered, issued, last >>

\* the process as node starts it
ServerStart(files) ==
    /\ entry \in files
    /\ server = IF entry = "app.js" THEN "config" ELSE "check"
    /\ selectOne = "none"
    /\ errorLog = {}

\* the MVC application up and serving, its check passed
ServerUp ==
    /\ entry = "app.js"
    /\ server = "listening"
    /\ selectOne = "ok"
    /\ errorLog = {}

\* the MVC application takes requests
Serving == entry = "app.js" /\ server = "listening"

(***************************************************************************)
(* middleware/auth rateLimiter                                             *)
(***************************************************************************)
\* client addresses followed one by one
Ips == {"A", "B"}

\* the Map is pruned when it holds more keys than this
PruneAbove == 1000

\* requests the limiter may admit, all addresses together, before the model stops
\* sending
MaxSent == 3

\* the limits the limiter is built with range over 1..MaxLimit
MaxLimit == 2

\* the windows the limiter is built with: one ms, one and a half seconds
Windows == {1, 1500}

\* Math.ceil(x / d)
Ceil(x, d) == IF x % d = 0 THEN x \div d ELSE (x \div d) + 1

\* timestamps.filter(timestamp => timestamp > windowStart)
RECURSIVE filterRecent(_, _)
filterRecent(timestamps, windowStart) ==
    IF timestamps = << >>
    THEN << >>
    ELSE IF Head(timestamps) > windowStart
    THEN << Head(timestamps) >> \o filterRecent(Tail(timestamps), windowStart)
    ELSE filterRecent(Tail(timestamps), windowStart)

\* requests.get(ip) || []
mapGet(map, ip) == IF ip \in DOMAIN map THEN map[ip] ELSE << >>

\* mutant: one list of timestamps is shared by every address
mapSet_Shared(map, ip, timestamps) ==
    [k \in DOMAIN map \cup { ip } |-> timestamps]

\* requests.set(ip, timestamps)
mapSet(map, ip, timestamps) ==
    [k \in DOMAIN map \cup { ip } |-> IF k = ip THEN timestamps ELSE map[k]]

\* the loop under `if (requests.size > 1000)`: every key keeps its timestamps inside
\* the window and is deleted when none is left
prune(map, windowStart) ==
    LET kept == { k \in DOMAIN map : filterRecent(map[k], windowStart) # << >> }
    IN  [k \in kept |-> filterRecent(map[k], windowStart)]

\* the answers of the limiter: next() or 429
Admitted == [status |-> 0, retryAfter |-> 0, limit |-> 0, windowMs |-> 0, current |-> 0]

TooManyRequests(retryAfter, limit, window, current) ==
    [status |-> 429, retryAfter |-> retryAfter, limit |-> limit,
     windowMs |-> Ceil(window, 1000), current |-> current]

\* mutant: the limit is compared with > instead of >=
limiterAnswer_OffByOne(map, ip, limit, window, at) ==
    LET recentRequests == filterRecent(mapGet(map, ip), at - window)
    IN  IF Len(recentRequests) > limit
        THEN TooManyRequests(Ceil(recentRequests[1] + window - at, 1000),
                             limit, window, Len(recentRequests))
        ELSE Admitted

\* mutant: the retry-after hint is rounded down
limiterAnswer_Floor(map, ip, limit, window, at) ==
    LET recentRequests == filterRecent(mapGet(map, ip), at - window)
    IN  IF Len(recentRequests) >= limit
        THEN TooManyRequests((recentRequests[1] + window - at) \div 1000,
                             limit, window, Len(recentRequests))
        ELSE Admitted

\* the check of the current address, on the Map as it is after the pruning
limiterAnswer(map, ip, limit, window, at) ==
    LET recentRequests == filterRecent(mapGet(map, ip), at - window)
    IN  IF Len(recentRequests) >= limit
        THEN TooManyRequests(Ceil(recentRequests[1] + window - at, 1000),
                             limit, window, Len(recentRequests))
        ELSE Admitted

\* the limiter is skipped: isDev && process.env.DISABLE_RATE_LIMIT === 'true'
skipped(env, disabled) == env # "production" /\ disabled

\* mutant: the pruning loop runs on every request
mapAfterPrune_Always(map, others, window, at) == prune(map, at - window)

\* the Map after `if (requests.size > 1000) {...}`
mapAfterPrune(map, others, window, at) ==
    IF Cardinality(DOMAIN map) + others > PruneAbove THEN prune(map, at - window) ELSE map

\* how many of the times in history lie inside the window that ends at `at`
InWindow(history, window, at) == Len(filterRecent(history, at - window))

NoLimited == [ip |-> "", at |-> 0, prior |-> 0, answer |-> Admitted]

\* a 429 an address has been given: when, and the instant its Retry-After hint names
Hint(at, retryAfter) == [at |-> at, due |-> at + 1000 * retryAfter]

\* the earlier due of an earlier hint and a new one
earliest(old, hint) ==
    IF old = << >> THEN << hint >>
    ELSE IF old[1].due <= hint.due THEN old ELSE << hint >>

NoHints == [pending |-> << >>, ever |-> << >>]

\* the hints of an address after this answer: `pending` is the hint due first among
\* the 429s since the address was last admitted, `ever` among all its 429s
hintsAfter(hints, answer, at) ==
    IF answer = Admitted
    THEN [hints EXCEPT !.pending = << >>]
    ELSE [pending |-> earliest(hints.pending, Hint(at, answer.retryAfter)),
          ever |-> earliest(hints.ever, Hint(at, answer.retryAfter))]

\* one request from address ip passes through the limiter, which reads the Map `seen`
RateLimitStep(ip, seen) ==
    LET pruned == mapAfterPrune(seen, crowd, windowMs, clock)
        answer == IF skipped(NODE_ENV, DISABLE_RATE_LIMIT)
                  THEN Admitted
                  ELSE limiterAnswer(pruned, ip, maxRequests, windowMs, clock)
        recentRequests == filterRecent(mapGet(pruned, ip), clock - windowMs)
    IN  /\ answer = Admitted => Len(admitted["A"]) + Len(admitted["B"]) < MaxSent
        /\ limited' = [ip |-> ip, at |-> clock,
                       prior |-> InWindow(admitted[ip], windowMs, clock),
                       answer |-> answer]
        /\ admitted' = IF answer = Admitted
                       THEN [admitted EXCEPT ![ip] = Append(@, clock)]
                       ELSE admitted
        /\ requests' = IF skipped(NODE_ENV, DISABLE_RATE_LIMIT)
                       THEN requests
                       ELSE IF answer = Admitted
                       THEN mapSet(pruned, ip, Append(recentRequests, clock))
                       ELSE pruned
        \* the keys of other addresses are pruned with the rest: all stale, or not
        /\ crowd' \in IF ~skipped(NODE_ENV, DISABLE_RATE_LIMIT)
                         /\ Cardinality(DOMAIN seen) + crowd > PruneAbove
                      THEN { 0, crowd }
                      ELSE { crowd }
        /\ UNCHANGED << NODE_ENV, gateVars, maxRequests, windowMs, DISABLE_RATE_LIMIT,
                        clock, serverVars, later, users, nextId, now, reg, registered,
                        issued, last, transport >>

\* the middleware has no await: it reads and writes the Map in one turn
RateLimit(ip) == RateLimitStep(ip, requests) /\ UNCHANGED flowVars

\* the same request, with the hints of its address kept
RateLimitHinted(ip) ==
    /\ RateLimitStep(ip, requests)
    /\ hinted' = [hinted EXCEPT ![ip] = hintsAfter(@, limited'.answer, clock)]
    /\ UNCHANGED << inflight, routed >>

\* a request the server has accepted: its address, the Map as it was at that moment,
\* and whether the middleware has run for it
Arrival(ip, seen, handled) == [ip |-> ip, seen |-> seen, handled |-> handled]

Waiting(p) == inflight[p] # << >> /\ ~inflight[p][1].handled

\* mutant: the middleware works on the Map it saw when the request arrived
mapRead_AtArrival(current, atArrival) == atArrival

\* the Map the middleware works on: requests.get and requests.set run in one turn of
\* the event loop, on the Map as it is in that turn
mapRead(current, atArrival) == current

\* a request of address ip reaches the server while others wait
Arrive(p, ip) ==
    /\ inflight[p] = << >>
    /\ inflight' = [inflight EXCEPT ![p] = << Arrival(ip, requests, FALSE) >>]
    /\ UNCHANGED << NODE_ENV, gateVars, hinted, routed, limiterVars, serverVars, later,
                    users, nextId, now, reg, registered, issued, last, transport >>

\* the event loop runs the middleware for one waiting request, start to end
Handle(p) ==
    /\ Waiting(p)
    /\ RateLimitStep(inflight[p][1].ip, mapRead(requests, inflight[p][1].seen))
    /\ inflight' = [inflight EXCEPT ![p] = << Arrival(@[1].ip, @[1].seen, TRUE) >>]
    /\ UNCHANGED << hinted, routed >>

\* ---- routes: app.js mounts the api router twice, the api router mounts the auth ----
\* ---- router under /auth, behind the limiter, and again at its root ----

AppMounts == { "/api", "/user" }
RouterMounts == { "/auth", "" }
PublicRoutes == { "/register", "/login", "/refresh" }

Route(mount, prefix, route, limiter, handler) ==
    [mount |-> mount, prefix |-> prefix, route |-> route, limiter |-> limiter,
     handler |-> handler]

NoRoute == Route("", "", "", FALSE, "")

\* router.use('/auth', rateLimiter(...)) matches the paths that begin with /auth
limiterMounted(prefix) == prefix = "/auth"

\* a request for mount + prefix + route goes down the stack of the api router: the
\* limiter where it is mounted, which answers 429 or calls next(), then the handler
Dispatch(mount, prefix, route, ip) ==
    IF limiterMounted(prefix)
    THEN /\ RateLimitStep(ip, requests)
         /\ routed' = Route(mount, prefix, route, TRUE,
                            IF limited'.answer = Admitted THEN route ELSE "")
         /\ UNCHANGED << hinted, inflight >>
    ELSE /\ routed' = Route(mount, prefix, route, FALSE, route)
         /\ UNCHANGED << NODE_ENV, gateVars, hinted, inflight, limiterVars, serverVars,
                         later, users, nextId, now, reg, registered, issued, last,
                         transport >>

\* time passes until instant t
Elapse(t) ==
    /\ t > clock
    /\ clock' = t
    /\ UNCHANGED << NODE_ENV, gateVars, flowVars, maxRequests, windowMs, DISABLE_RATE_LIMIT,
                    requests, crowd, admitted, limited, serverVars, later,
                    users, nextId, now, reg, registered, issued, last, transport >>

\* Date.now() moves on
Advance(t) ==
    /\ t > clock
    /\ \E ip \in Ips : \E i \in 1..Len(admitted[ip]) :
          t \in { admitted[ip][i] + 1, admitted[ip][i] + windowMs - 1,
                  admitted[ip][i] + windowMs }
    /\ clock' = t
    /\ UNCHANGED << NODE_ENV, gateVars, flowVars, maxRequests, windowMs, DISABLE_RATE_LIMIT, requests, crowd,
                    admitted, limited, serverVars, later,
                    users, nextId, now, reg, registered, issued, last, transport >>

\* routes/index: the limits of the limiter mounted on /auth
rateLimitConfig(env) ==
    IF env # "production"
    THEN [maxRequests |-> 100, windowMs |-> 15 * 60 * 1000]
    ELSE [maxRequests |-> 20, windowMs |-> 15 * 60 * 1000]

\* the limiter as rateLimiter(limit, window) builds it
LimiterInit(limits, windows, switches, crowds) ==
    /\ maxRequests \in limits
    /\ windowMs \in windows
    /\ DISABLE_RATE_LIMIT \in switches
    /\ crowd \in crowds
    /\ requests = << >>
    /\ clock = 0
    /\ admitted = [ip \in Ips |-> << >>]
    /\ limited = NoLimited
    /\ hinted = [ip \in Ips |-> NoHints]
    /\ inflight = [p \in Procs |-> << >>]
    /\ routed = NoRoute

(***************************************************************************)
(* The specification of registration and login                             *)
(***************************************************************************)
InitWith(envs, variants) ==
    /\ NODE_ENV \in envs
    /\ transport \in variants
    /\ users = {}
    /\ nextId = 1
    /\ now = 0
    /\ reg = [p \in Procs |-> Idle]
    /\ registered = {}
    /\ issued = {}
    /\ last = NoExchange
    /\ later = {}
    /\ LimiterInit({ rateLimitConfig(NODE_ENV).maxRequests },
                   { rateLimitConfig(NODE_ENV).windowMs }, { FALSE }, { 0 })
    /\ ServerUp
    /\ GateInit({ << >> })

\* concurrent registrations
Init == InitWith(NodeEnvs, {"body"})

Next ==
    \/ \E p \in Procs, data \in RaceRequests, dbOk \in BOOLEAN : RegisterLookup(p, data, dbOk)
    \/ \E p \in Procs : RegisterHash(p)
    \/ \E p \in Procs, dbOk \in BOOLEAN : RegisterInsert(p, dbOk)

Spec == Init /\ [][Next]_vars

(***************************************************************************)
(* The specification of one client that registers and logs in              *)
(***************************************************************************)
\* what the client registers with: two spellings of one address, a malformed
\* address and none, with two good passwords, a short one and an empty one
ClientRegistrations ==
    [email : { Str(EmailA), Str(EmailAVariant), Str(EmailBad), Undefined },
     password : { Str(PwSecret), Str(PwOther), Str(PwShort), Str(<< >>) }]

\* what the client logs in with: the same, and an address nobody registered
ClientLogins ==
    [email : { Str(EmailA), Str(EmailAVariant), Str(EmailX), Str(EmailBad), Undefined },
     password : { Str(PwSecret), Str(PwOther), Str(PwShort), Str(<< >>) }]

InitLogin == InitWith({"production"}, Transports)

NextLogin ==
    \/ \E data \in ClientRegistrations, dbOk \in BOOLEAN : RegisterLookup(1, data, dbOk)
    \/ RegisterHash(1)
    \/ \E dbOk \in BOOLEAN : RegisterInsert(1, dbOk)
    \/ \E credentials \in ClientLogins, dbOk \in BOOLEAN : Login(credentials, dbOk)

SpecLogin == InitLogin /\ [][NextLogin]_vars

\* ---- specification of the requests a client sends, each kept with its answer ----

\* a registration request, kept with what was sent and, when AuthService.register
\* threw at once, the answer
RegisterSeen(p, data, dbOk) ==
    /\ RegisterLookupStep(p, data, dbOk)
    /\ last' = Exchange("/register", data, NoRequest, dbOk, << >>, << >>, reg'[p].response)

\* passwords of every length, from none to more than MaxPasswordLength characters
Lengths == { Str(PwSecret), Str(PwShort), Str(PwLong), Str(<< >>) }

\* what the client registers with: an address, a malformed one or none
LengthRegistrations ==
    [email : { Str(EmailA), Str(EmailBad), Undefined }, password : Lengths]

\* what the client logs in with: the address or another
LengthLogins == [email : { Str(EmailA), Str(EmailX) }, password : Lengths]

NextValidation ==
    \/ \E data \in LengthRegistrations, dbOk \in BOOLEAN : RegisterSeen(1, data, dbOk)
    \/ RegisterHash(1)
    \/ RegisterInsert(1, TRUE)
    \/ \E credentials \in LengthLogins, dbOk \in BOOLEAN : Login(credentials, dbOk)

SpecValidation == InitLogin /\ [][NextValidation]_vars


(***************************************************************************)
(* AuthService.refreshAccessToken and AuthController.refreshToken          *)
(***************************************************************************)
\* mutant: a refresh hands out a new access token and no refresh token
refreshAccessToken_AccessOnly(refreshToken, table, at, dbOk) ==
    LET verified == verifyRefreshToken(refreshToken, table, at, dbOk)
    IN  IF verified.error # NoError
        THEN [tokens |-> NoTokens, error |-> verified.error]
        ELSE [tokens |-> [generateTokens(verified.user[1], at)
                             EXCEPT !.refreshToken = GarbageToken],
              error |-> NoError]

\* AuthService.refreshAccessToken: a new pair, or the error of verifyRefreshToken
refreshAccessToken(refreshToken, table, at, dbOk) ==
    LET verified == verifyRefreshToken(refreshToken, table, at, dbOk)
    IN  IF verified.error # NoError
        THEN [tokens |-> NoTokens, error |-> verified.error]
        ELSE [tokens |-> generateTokens(verified.user[1], at), error |-> NoError]

\* where the deployed controller reads the refresh token
presentedRefreshToken(variant, request) ==
    IF variant = "body" THEN request.body.refreshToken ELSE request.cookies.refreshToken

\* mutant: a rejected refresh token no longer clears the cookies
refreshRejected_KeepCookies(env) ==
    Response(401, [BodyBase EXCEPT !.message = "Session expired. Please login again."],
             << >>)

\* AuthController.refreshToken, the service having thrown TokenExpiredError or
\* AuthenticationError
refreshRejected(env) ==
    Response(401, [BodyBase EXCEPT !.message = "Session expired. Please login again."],
             clearAuthCookies(env))

\* AuthController.refreshToken of the deployed variant
refreshResponse(variant, env, request, table, at, dbOk) ==
    LET refreshToken == presentedRefreshToken(variant, request)
        result == refreshAccessToken(refreshToken[1], table, at, dbOk)
    IN  IF refreshToken = << >>
        THEN Response(401,
                 [BodyBase EXCEPT !.message =
                     IF variant = "body" THEN "Refresh token required"
                                         ELSE "Refresh token not found"],
                 << >>)
        ELSE IF result.error.name \in {"TokenExpiredError", "AuthenticationError"}
        THEN refreshRejected(env)
        ELSE IF result.error # NoError
        THEN Response(500, [BodyBase EXCEPT !.message = "Failed to refresh token",
                                            !.error = devError(env, result.error)], << >>)
        ELSE IF variant = "body"
        THEN Response(200,
                 [BodyBase EXCEPT !.success = TRUE,
                                  !.accessToken = << result.tokens.accessToken >>,
                                  !.refreshToken = << result.tokens.refreshToken >>,
                                  !.message = "Token refreshed successfully"],
                 << >>)
        ELSE Response(200,
                 [BodyBase EXCEPT !.success = TRUE,
                                  !.message = "Token refreshed successfully"],
                 << Cookie("accessToken", << result.tokens.accessToken >>, env,
                           AccessCookieMaxAge) >>)

\* POST /refresh
RefreshExchange(request, dbOk) ==
    LET refreshToken == presentedRefreshToken(transport, request)
        result == refreshAccessToken(refreshToken[1], users, now, dbOk)
        granted == refreshToken # << >> /\ result.error = NoError
    IN  /\ granted => Cardinality(issued \cup { result.tokens }) <= MaxPairs
        /\ issued' = IF granted THEN issued \cup { result.tokens } ELSE issued
        /\ last' = Exchange("refresh", NoCredentials, request, dbOk, << >>, << >>,
                            refreshResponse(transport, NODE_ENV, request, users, now, dbOk))
        /\ UNCHANGED << NODE_ENV, gateVars, flowVars, transport, limiterVars, serverVars, users, nextId, now, reg, registered >>

Refresh(request, dbOk) == RefreshExchange(request, dbOk) /\ UNCHANGED later

(***************************************************************************)
(* middleware/auth verifyToken and the routes behind it                    *)
(***************************************************************************)
\* mutant: the gate reports an expired access token with the code of an invalid one
verifyToken_ExpiredAsInvalid(env, request, table, at, dbOk) ==
    LET token == request.authorization
        verified == verifyAccessToken(token[1], table, at, dbOk)
    IN  IF token = << >>
        THEN [next |-> FALSE, user |-> << >>,
              response |-> Response(401, [BodyBase EXCEPT !.message = "Access token required",
                                                          !.code = "NO_TOKEN"], << >>)]
        ELSE IF verified.error = NoError
        THEN [next |-> TRUE, user |-> verified.user, response |-> NoResponse]
        ELSE [next |-> FALSE, user |-> << >>,
              response |-> Response(401, [BodyBase EXCEPT !.message = verified.error.message,
                                                          !.code = "INVALID_TOKEN"], << >>)]

\* the gate: it answers itself, or calls next() with req.user set
verifyToken(env, request, table, at, dbOk) ==
    LET token == request.authorization
        verified == verifyAccessToken(token[1], table, at, dbOk)
    IN  IF token = << >>
        THEN [next |-> FALSE, user |-> << >>,
              response |-> Response(401, [BodyBase EXCEPT !.message = "Access token required",
                                                          !.code = "NO_TOKEN"], << >>)]
        ELSE IF verified.error = NoError
        THEN [next |-> TRUE, user |-> verified.user, response |-> NoResponse]
        ELSE IF verified.error.name = "TokenExpiredError"
        THEN [next |-> FALSE, user |-> << >>,
              response |-> Response(401, [BodyBase EXCEPT !.message = "Access token expired",
                                                          !.code = "TOKEN_EXPIRED"], << >>)]
        ELSE IF verified.error.name = "AuthenticationError"
        THEN [next |-> FALSE, user |-> << >>,
              response |-> Response(401, [BodyBase EXCEPT !.message = verified.error.message,
                                                          !.code = "INVALID_TOKEN"], << >>)]
        ELSE [next |-> FALSE, user |-> << >>,
              response |-> Response(500,
                  [BodyBase EXCEPT !.message = "Authentication verification failed",
                                   !.error = devError(env, verified.error)], << >>)]

\* AuthController.getProfile
getProfile(user) ==
    Response(200, [BodyBase EXCEPT !.success = TRUE, !.user = << toSafeObject(user) >>],
             << >>)

\* AuthController.logout: AuthService.logout returns { success: true }
logout(env) ==
    Response(200, [BodyBase EXCEPT !.success = TRUE, !.message = "Logged out successfully"],
             clearAuthCookies(env))

\* AuthController.verifyToken, the endpoint GET /verify
verifyTokenEndpoint(user) ==
    Response(200, [BodyBase EXCEPT !.success = TRUE, !.valid = << TRUE >>,
                                   !.user = << toSafeObject(user) >>], << >>)

\* router.get('/protected', verifyToken, ...)
protectedRoute(user) ==
    Response(200, [BodyBase EXCEPT !.success = TRUE,
                                   !.message = "This is a protected route",
                                   !.user = << toSafeObject(user) >>], << >>)

\* the routes behind the gate: /me, /logout, /verify, /protected
routeResponse(route, env, request, table, at, dbOk) ==
    LET gate == verifyToken(env, request, table, at, dbOk)
    IN  IF ~gate.next
        THEN gate.response
        ELSE IF route = "/logout"
        THEN logout(env)
        ELSE IF route = "/verify"
        THEN verifyTokenEndpoint(gate.user[1])
        ELSE IF route = "/protected"
        THEN protectedRoute(gate.user[1])
        ELSE getProfile(gate.user[1])

GatedRoutes == {"/me", "/logout"}

\* the gated routes that answer with the user
ProfileRoutes == {"/me", "/verify", "/protected"}

\* middleware optionalAuth: req.user is the verified user, or null
optionalAuth(request, table, at, dbOk) ==
    LET token == request.authorization
        verified == verifyAccessToken(token[1], table, at, dbOk)
    IN  IF token = << >> \/ verified.error # NoError THEN << >> ELSE verified.user

\* router.get('/public', optionalAuth, ...)
publicRoute(request, table, at, dbOk) ==
    LET user == optionalAuth(request, table, at, dbOk)
    IN  Response(200,
            [BodyBase EXCEPT !.success = TRUE, !.message = "This is a public route",
                 !.user = IF user = << >> THEN << >> ELSE << toSafeObject(user[1]) >>,
                 !.authenticated = << user # << >> >>],
            << >>)

\* a request to GET /public
PublicExchange(request, dbOk) ==
    /\ last' = Exchange("/public", NoCredentials, request, dbOk, << >>, << >>,
                        publicRoute(request, users, now, dbOk))
    /\ UNCHANGED << NODE_ENV, ADMIN_EMAILS, flowVars, transport, limiterVars, serverVars,
                    later, users, nextId, now, reg, registered, issued >>

Public(request, dbOk) == PublicExchange(request, dbOk) /\ UNCHANGED passage

\* a request to a route behind the gate
GatedExchange(route, request, dbOk) ==
    /\ last' = Exchange(route, NoCredentials, request, dbOk, << >>, << >>,
                        routeResponse(route, NODE_ENV, request, users, now, dbOk))
    /\ UNCHANGED << NODE_ENV, ADMIN_EMAILS, flowVars, transport, limiterVars, serverVars,
                    users, nextId, now, reg, registered, issued >>

Gated(route, request, dbOk) ==
    GatedExchange(route, request, dbOk) /\ UNCHANGED << later, passage >>

(***************************************************************************)
(* middleware/auth: what a middleware did with a request, and requireAdmin *)
(***************************************************************************)
\* mutant: optionalAuth turns a request with a bad token away, as verifyToken does
optionalAuthRun_Rejects(env, request, table, at, dbOk) ==
    LET gate == verifyToken(env, request, table, at, dbOk)
    IN  IF request.authorization = << >> \/ gate.next
        THEN Passage("optionalAuth", request, gate.user, 1, NoResponse)
        ELSE Passage("optionalAuth", request, << >>, 0, gate.response)

\* optionalAuth as a whole: every path sets req.user and ends in one next(), and
\* res is never used
optionalAuthRun(env, request, table, at, dbOk) ==
    Passage("optionalAuth", request, optionalAuth(request, table, at, dbOk), 1, NoResponse)

\* verifyToken as a whole
verifyTokenRun(env, request, table, at, dbOk) ==
    LET gate == verifyToken(env, request, table, at, dbOk)
    IN  Passage("verifyToken", request, gate.user, IF gate.next THEN 1 ELSE 0,
                gate.response)

\* s.split(','): the pieces between the commas, one piece when there is no comma
RECURSIVE split(_)
split(s) ==
    IF \A i \in 1..Len(s) : s[i] # ","
    THEN << s >>
    ELSE LET i == CHOOSE k \in 1..Len(s) : s[k] = "," /\ \A j \in 1..(k - 1) : s[j] # ","
         IN  << SubSeq(s, 1, i - 1) >> \o split(SubSeq(s, i + 1, Len(s)))

\* (process.env.ADMIN_EMAILS || '').split(',').map(email => email.trim())
adminEmails(value) ==
    LET pieces == split(IF value = << >> THEN << >> ELSE value[1])
    IN  [i \in 1..Len(pieces) |-> trim(pieces[i])]

\* adminEmails.includes(email)
includes(list, x) == \E i \in 1..Len(list) : list[i] = x

\* mutant: an allow-list that is not configured lets every authenticated user in
requireAdmin_OpenWhenUnset(user, value) ==
    IF user = << >>
    THEN [next |-> FALSE,
          response |-> Response(401, [BodyBase EXCEPT !.message = "Authentication required"],
                                << >>)]
    ELSE IF adminEmails(value) # << << >> >> /\ ~includes(adminEmails(value), user[1].email)
    THEN [next |-> FALSE,
          response |-> Response(403, [BodyBase EXCEPT !.message = "Admin access required"],
                                << >>)]
    ELSE [next |-> TRUE, response |-> NoResponse]

\* requireAdmin, given the req.user an earlier middleware has left
requireAdmin(user, value) ==
    IF user = << >>
    THEN [next |-> FALSE,
          response |-> Response(401, [BodyBase EXCEPT !.message = "Authentication required"],
                                << >>)]
    ELSE IF ~includes(adminEmails(value), user[1].email)
    THEN [next |-> FALSE,
          response |-> Response(403, [BodyBase EXCEPT !.message = "Admin access required"],
                                << >>)]
    ELSE [next |-> TRUE, response |-> NoResponse]

\* a request to GET /public, the run of optionalAuth observed
PublicObserved(request, dbOk) ==
    /\ PublicExchange(request, dbOk)
    /\ passage' = optionalAuthRun(NODE_ENV, request, users, now, dbOk)

\* a request to a route behind the gate, with what the gate did
GatedObserved(route, request, dbOk) ==
    /\ GatedExchange(route, request, dbOk)
    /\ passage' = verifyTokenRun(NODE_ENV, request, users, now, dbOk)
    /\ UNCHANGED later

\* the middleware that may stand before requireAdmin on a route
FirstGates == {"verifyToken", "optionalAuth"}

\* a request to a route that mounts one of the two gates and then requireAdmin;
\* requireAdmin runs when the first gate has called next()
AdminRoute(first, request, dbOk) ==
    LET before == IF first = "verifyToken"
                  THEN verifyTokenRun(NODE_ENV, request, users, now, dbOk)
                  ELSE optionalAuthRun(NODE_ENV, request, users, now, dbOk)
        admin == requireAdmin(before.user, ADMIN_EMAILS)
    IN  /\ passage' = IF before.next = 0
                      THEN before
                      ELSE Passage("requireAdmin", request, before.user,
                                   IF admin.next THEN 1 ELSE 0, admin.response)
        /\ UNCHANGED << NODE_ENV, ADMIN_EMAILS, flowVars, transport, limiterVars, serverVars,
                        later, users, nextId, now, reg, registered, issued, last >>

\* the values process.env.ADMIN_EMAILS is given: unset, empty, one address, two
\* addresses with blanks around the first, and an address in capitals
AdminLists ==
    { << >>, << << >> >>, << EmailA >>,
      << << " " >> \o EmailA \o << " ", "," >> \o EmailX >>,
      << << "A", "@", "B", ".", "c" >> >> }

(***************************************************************************)
(* The store outside the auth flow, and the clock                          *)
(***************************************************************************)
\* User.delete: DELETE FROM users WHERE id = $1
DeleteUser(u) ==
    /\ u \in users
    /\ users' = users \ { u }
    /\ registered' = { r \in registered : r.user.id # u.id }
    /\ UNCHANGED << NODE_ENV, gateVars, flowVars, transport, limiterVars, serverVars, later, nextId, now, reg, issued, last >>

AllIssued == { pair.accessToken : pair \in issued } \cup { pair.refreshToken : pair \in issued }

\* the clock moves on to the last second before, or to the second of, the expiry
\* of a token handed out
Tick(t) ==
    /\ t > now
    /\ \E token \in AllIssued : t \in { token.claims.exp - 1, token.claims.exp }
    /\ now' = t
    /\ UNCHANGED << NODE_ENV, gateVars, flowVars, transport, limiterVars, serverVars, later, users, nextId, reg, registered, issued, last >>

(***************************************************************************)
(* The specification of the token lifecycle                                *)
(***************************************************************************)
\* a token whose claims were edited after it was signed
Tampered(token) ==
    [token EXCEPT !.claims.exp = token.claims.exp + refreshTokenExpiry]

\* a token a client made up for the first user, signed with a key of its own
ForgedToken ==
    LET claims == [userId |-> 1, email |-> EmailA, iat |-> 0, exp |-> refreshTokenExpiry]
    IN  [claims |-> claims, sig |-> [key |-> "guess", over |-> claims]]

\* what a client may put where a token of the given kind is expected: nothing,
\* garbage, a token it made up, any token handed out, or an edited token of that kind
Presentable(kind) ==
    { << >>, << GarbageToken >>, << ForgedToken >> }
        \cup { << token >> : token \in AllIssued }
        \cup { << Tampered(pair[kind]) >> : pair \in issued }

\* the request that carries a refresh token where the deployed controller reads it
RefreshRequest(variant, token) ==
    IF variant = "body"
    THEN Request(<< >>, << >>, << >>, token)
    ELSE Request(<< >>, << >>, token, << >>)

TokenRegistrations == [email : { Str(EmailA) }, password : { Str(PwSecret) }]

TokenLogins == [email : { Str(EmailA) }, password : { Str(PwSecret), Str(PwOther) }]

InitTokens == InitWith({"production"}, Transports)

NextTokens ==
    \/ \E data \in TokenRegistrations : RegisterLookup(1, data, TRUE)
    \/ RegisterHash(1)
    \/ RegisterInsert(1, TRUE)
    \/ \E credentials \in TokenLogins : Login(credentials, TRUE)
    \/ \E token \in Presentable("refreshToken"), dbOk \in BOOLEAN :
          Refresh(RefreshRequest(transport, token), dbOk)
    \/ \E token \in AllIssued : \E t \in { token.claims.exp - 1, token.claims.exp } : Tick(t)

SpecTokens == InitTokens /\ [][NextTokens]_vars

(***************************************************************************)
(* The specification of the routes behind the gate                         *)
(***************************************************************************)
NextGate ==
    \/ \E data \in TokenRegistrations : RegisterLookup(1, data, TRUE)
    \/ RegisterHash(1)
    \/ RegisterInsert(1, TRUE)
    \/ \E credentials \in TokenRegistrations : Login(credentials, TRUE)
    \/ \E route \in GatedRoutes, token \in Presentable("accessToken"), dbOk \in BOOLEAN :
          Gated(route, Request(token, << >>, << >>, << >>), dbOk)
    \/ \E token \in AllIssued : \E t \in { token.claims.exp - 1, token.claims.exp } : Tick(t)

SpecGate == InitTokens /\ [][NextGate]_vars

(***************************************************************************)
(* The specification of the two transports, from login to GET /me          *)
(***************************************************************************)
\* the value of the cookie a response sets under this name, if it sets one
cookieValue(response, name) ==
    IF \E i \in 1..Len(response.cookies) : response.cookies[i].name = name
    THEN response.cookies[CHOOSE i \in 1..Len(response.cookies) :
                              response.cookies[i].name = name].value
    ELSE << >>

\* the next request of a client that carries what the response delivered, where it
\* was delivered: a token of the body as Bearer token, cookies as cookies
AsDelivered(response) ==
    Request(response.body.accessToken, cookieValue(response, "accessToken"),
            cookieValue(response, "refreshToken"), << >>)

\* GET /me right after a successful login, with the credential as delivered
MeAfterLogin(dbOk) ==
    /\ last.op = "login"
    /\ last.response.status = 200
    /\ Gated("/me", AsDelivered(last.response), dbOk)

NextTransport ==
    \/ \E data \in TokenRegistrations : RegisterLookup(1, data, TRUE)
    \/ RegisterHash(1)
    \/ RegisterInsert(1, TRUE)
    \/ \E credentials \in TokenLogins, dbOk \in BOOLEAN : Login(credentials, dbOk)
    \/ \E dbOk \in BOOLEAN : MeAfterLogin(dbOk)
    \/ \E token \in AllIssued : \E t \in { token.claims.exp - 1, token.claims.exp } : Tick(t)

SpecTransport == InitTokens /\ [][NextTransport]_vars

(***************************************************************************)
(* The specification of everything that is sent outward                    *)
(***************************************************************************)
InitOutward == InitWith(NodeEnvs, Transports)

NextOutward ==
    \/ \E data \in TokenRegistrations, dbOk \in BOOLEAN : RegisterLookup(1, data, dbOk)
    \/ RegisterHash(1)
    \/ \E dbOk \in BOOLEAN : RegisterInsert(1, dbOk)
    \/ \E credentials \in TokenLogins, dbOk \in BOOLEAN : Login(credentials, dbOk)
    \/ \E token \in Presentable("refreshToken"), dbOk \in BOOLEAN :
          Refresh(RefreshRequest(transport, token), dbOk)
    \/ \E route \in ProfileRoutes, token \in Presentable("accessToken"), dbOk \in BOOLEAN :
          Gated(route, Request(token, << >>, << >>, << >>), dbOk)
    \/ \E token \in Presentable("accessToken"), dbOk \in BOOLEAN :
          Public(Request(token, << >>, << >>, << >>), dbOk)

SpecOutward == InitOutward /\ [][NextOutward]_vars

(***************************************************************************)
(* The specification of sessions: logins, refreshes and logouts of one     *)
(* user, with every pair handed out so far presented again                 *)
(***************************************************************************)
SessionOps == {"login", "refresh", "logout"}

\* the pairs handed out before this step to the user with this id
HandedOut(id) == { pair \in issued : pair.accessToken.claims.userId = id }

\* the history: op has just been answered with 200 for the user with this id
Noted(op, id) ==
    later' = IF last'.response.status = 200
             THEN later \cup { << pair, op >> : pair \in HandedOut(id) }
             ELSE later

SessionLogin(credentials) ==
    /\ LoginExchange(credentials, TRUE)
    /\ \E id \in 1..MaxUserId :
          /\ (\E u \in users : u.id = id /\ u.email = sanitizeEmail(credentials.email))
                 \/ (id = 1 /\ ~\E u \in users : u.email = sanitizeEmail(credentials.email))
          /\ Noted("login", id)

SessionRefresh(pair) ==
    /\ RefreshExchange(RefreshRequest(transport, << pair.refreshToken >>), TRUE)
    /\ Noted("refresh", pair.refreshToken.claims.userId)

SessionLogout(pair) ==
    /\ GatedExchange("/logout", Request(<< pair.accessToken >>, << >>, << >>, << >>), TRUE)
    /\ Noted("logout", pair.accessToken.claims.userId)
    /\ UNCHANGED passage

InitSessions == InitWith({"production"}, Transports)

\* one registration, so one user
NextSessions ==
    \/ \E data \in TokenRegistrations : nextId = 1 /\ RegisterLookup(1, data, TRUE)
    \/ RegisterHash(1)
    \/ RegisterInsert(1, TRUE)
    \/ \E credentials \in TokenRegistrations : SessionLogin(credentials)
    \/ \E pair \in issued : SessionRefresh(pair)
    \/ \E pair \in issued : SessionLogout(pair)
    \/ \E pair \in issued :
          Gated("/me", Request(<< pair.accessToken >>, << >>, << >>, << >>), TRUE)
    \/ \E u \in users : DeleteUser(u)
    \/ \E pair \in issued :
          \E t \in { pair.accessToken.claims.exp - 1, pair.accessToken.claims.exp,
                     pair.refreshToken.claims.exp } : Tick(t)

SpecSessions == InitSessions /\ [][NextSessions]_vars

(***************************************************************************)
(* The specification of the start of the process                           *)
(***************************************************************************)
InitStartup ==
    /\ NODE_ENV \in NodeEnvs
    /\ transport = "body"
    /\ users = {}
    /\ nextId = 1
    /\ now = 0
    /\ reg = [p \in Procs |-> Idle]
    /\ registered = {}
    /\ issued = {}
    /\ last = NoExchange
    /\ later = {}
    /\ LimiterInit({ rateLimitConfig(NODE_ENV).maxRequests },
                   { rateLimitConfig(NODE_ENV).windowMs }, { FALSE }, { 0 })
    /\ ServerStart(Entries)
    /\ GateInit({ << >> })

\* the database answers the requests of a process whose check it answered, and may
\* or may not answer those of a process that went on without it
NextStartup ==
    \/ \E valid \in BOOLEAN : ValidateConfig(valid)
    \/ \E reachable \in BOOLEAN : CheckDatabase(reachable)
    \/ \E found \in BOOLEAN : FindPort(found)
    \/ \E bound \in BOOLEAN : Listen(bound)
    \/ \E data \in TokenRegistrations, dbOk \in BOOLEAN :
          Serving /\ RegisterLookup(1, data, dbOk)
    \/ Serving /\ RegisterHash(1)
    \/ \E dbOk \in BOOLEAN : Serving /\ RegisterInsert(1, dbOk)
    \/ \E credentials \in TokenLogins, dbOk \in BOOLEAN :
          Serving /\ Login(credentials, dbOk)

SpecStartup == InitStartup /\ [][NextStartup]_vars

(***************************************************************************)
(* The specification of deletion: tokens of a deleted user                 *)
(***************************************************************************)
InitRevoke == InitWith({"production"}, {"body"})

NextRevoke ==
    \/ \E data \in TokenRegistrations : RegisterLookup(1, data, TRUE)
    \/ RegisterHash(1)
    \/ RegisterInsert(1, TRUE)
    \/ \E credentials \in TokenRegistrations : Login(credentials, TRUE)
    \/ \E token \in AllIssued : Gated("/me", Request(<< token >>, << >>, << >>, << >>), TRUE)
    \/ \E token \in AllIssued : Refresh(RefreshRequest(transport, << token >>), TRUE)
    \/ \E u \in users : DeleteUser(u)
    \/ \E pair \in issued : Tick(pair.accessToken.claims.exp - 1)

SpecRevoke == InitRevoke /\ [][NextRevoke]_vars

(***************************************************************************)
(* The specification of the three gates, with two users and the clock      *)
(***************************************************************************)
GateRegistrations == [email : { Str(EmailA), Str(EmailX) }, password : { Str(PwSecret) }]

InitGates ==
    /\ NODE_ENV = "production"
    /\ transport = "body"
    /\ users = {}
    /\ nextId = 1
    /\ now = 0
    /\ reg = [p \in Procs |-> Idle]
    /\ registered = {}
    /\ issued = {}
    /\ last = NoExchange
    /\ later = {}
    /\ LimiterInit({ rateLimitConfig(NODE_ENV).maxRequests },
                   { rateLimitConfig(NODE_ENV).windowMs }, { FALSE }, { 0 })
    /\ ServerUp
    /\ GateInit(AdminLists)

\* what the gates are asked with: no token, a garbage token, the access tokens handed
\* out and the refresh tokens handed out
GatePresented ==
    { << >>, << GarbageToken >> } \cup { << token >> : token \in AllIssued }

\* only addresses not yet in the table register, and the clock moves once, to the
\* expiry of an access token handed out at the start
NextGates ==
    \/ \E data \in GateRegistrations :
          /\ findByEmail(users, sanitizeEmail(data.email), TRUE) = << >>
          /\ RegisterLookup(1, data, TRUE)
    \/ RegisterHash(1)
    \/ RegisterInsert(1, TRUE)
    \/ \E credentials \in GateRegistrations : Login(credentials, TRUE)
    \/ \E token \in GatePresented, dbOk \in BOOLEAN :
          PublicObserved(Request(token, << >>, << >>, << >>), dbOk)
    \/ \E first \in FirstGates, token \in GatePresented :
          AdminRoute(first, Request(token, << >>, << >>, << >>), TRUE)
    \/ \E pair \in issued :
          Gated("/logout", Request(<< pair.accessToken >>, << >>, << >>, << >>), TRUE)
    \/ \E pair \in issued :
          Refresh(RefreshRequest(transport, << pair.refreshToken >>), TRUE)
    \/ \E pair \in issued : now = 0 /\ Tick(pair.accessToken.claims.exp)

SpecGates == InitGates /\ [][NextGates]_vars

\* ---- specification of the routes behind verifyToken ----

AllGatedRoutes == GatedRoutes \cup ProfileRoutes

\* one address registers and logs in, the routes behind the gate are asked with and
\* without the tokens handed out, before and after their expiry, with the store up
\* or down, and the user may be deleted
NextGated ==
    \/ \E data \in GateRegistrations : nextId = 1 /\ RegisterLookup(1, data, TRUE)
    \/ RegisterHash(1)
    \/ RegisterInsert(1, TRUE)
    \/ \E credentials \in GateRegistrations : Login(credentials, TRUE)
    \/ \E route \in AllGatedRoutes, token \in GatePresented, dbOk \in BOOLEAN :
          GatedObserved(route, Request(token, << >>, << >>, << >>), dbOk)
    \/ \E u \in users : DeleteUser(u)
    \/ \E pair \in issued : now = 0 /\ Tick(pair.accessToken.claims.exp)

SpecGated == InitGates /\ [][NextGated]_vars

(***************************************************************************)
(* app.js: the body parser and the global error handler                    *)
(***************************************************************************)
\* NODE_ENV as the process may have it: '' stands for unset
AllNodeEnvs == NodeEnvs \cup { "local", "" }

\* what express.json() passes to next() for a body that is not JSON: a SyntaxError
\* to which body-parser gives status 400
EntityParseFailed ==
    [name |-> "SyntaxError", message |-> "Unexpected token } in JSON at position 1",
     errors |-> << >>, code |-> ""]

\* error.status
errorStatus(error) == IF error = EntityParseFailed THEN 400 ELSE 0

\* error.stack: the name and message, then the frames
errorStack(error) ==
    [name |-> error.name, message |-> error.message,
     frames |-> "at parse (node_modules/body-parser/lib/types/json.js)"]

\* the global error handler of app.js
errorHandler(env, error) ==
    Response(IF errorStatus(error) # 0 THEN errorStatus(error) ELSE 500,
             [BodyBase EXCEPT !.message = IF error.message # "" THEN error.message
                                          ELSE "Internal server error",
                              !.error = IF isDev(env) THEN << errorStack(error) >>
                                        ELSE << >>],
             << >>)

\* a POST whose body is not JSON: express.json() fails before any router is reached
BodyParseFailed(route) ==
    /\ last' = Exchange(route, NoCredentials, NoRequest, TRUE, << >>, << >>,
                        errorHandler(NODE_ENV, EntityParseFailed))
    /\ UNCHANGED << NODE_ENV, gateVars, flowVars, transport, limiterVars, serverVars,
                    later, users, nextId, now, reg, registered, issued >>

\* ---- specification of what the responses carry in each environment ----

InitErrors == InitWith(AllNodeEnvs, Transports)

NextErrors ==
    \/ \E data \in TokenRegistrations, dbOk \in BOOLEAN : RegisterLookup(1, data, dbOk)
    \/ RegisterHash(1)
    \/ \E dbOk \in BOOLEAN : RegisterInsert(1, dbOk)
    \/ \E credentials \in TokenLogins, dbOk \in BOOLEAN : Login(credentials, dbOk)
    \/ \E route \in ProfileRoutes, token \in GatePresented, dbOk \in BOOLEAN :
          Gated(route, Request(token, << >>, << >>, << >>), dbOk)
    \/ \E route \in PublicRoutes : BodyParseFailed(route)

SpecErrors == InitErrors /\ [][NextErrors]_vars

(***************************************************************************)
(* The specification of the rate limiter                                   *)
(***************************************************************************)
InitLimiter ==
    /\ NODE_ENV \in NodeEnvs
    /\ transport = "body"
    /\ users = {}
    /\ nextId = 1
    /\ now = 0
    /\ reg = [p \in Procs |-> Idle]
    /\ registered = {}
    /\ issued = {}
    /\ last = NoExchange
    /\ later = {}
    /\ LimiterInit(1..MaxLimit, Windows, BOOLEAN, { 0, PruneAbove })
    /\ ServerUp
    /\ GateInit({ << >> })

NextLimiter ==
    \/ \E ip \in Ips : RateLimit(ip)
    \/ \E ip \in Ips : \E i \in 1..Len(admitted[ip]) :
          \E t \in { admitted[ip][i] + 1, admitted[ip][i] + windowMs - 1,
                     admitted[ip][i] + windowMs } : Advance(t)

SpecLimiter == InitLimiter /\ [][NextLimiter]_vars

\* ---- specification of the limiter with the hints of each address kept ----

\* the instants the pending hints name
DueInstants ==
    UNION { { hinted[ip].pending[i].due : i \in 1..Len(hinted[ip].pending) } : ip \in Ips }

NextRecovery ==
    \/ \E ip \in Ips : RateLimitHinted(ip)
    \/ \E ip \in Ips : \E i \in 1..Len(admitted[ip]) :
          Advance(admitted[ip][i] + windowMs - 1)
    \/ \E t \in DueInstants : Elapse(t)

\* the limiter is on, only then is anything rejected, and the Map is crowded enough
\* for the pruning loop to run
InitRecovery ==
    /\ NODE_ENV = "production"
    /\ transport = "body"
    /\ users = {}
    /\ nextId = 1
    /\ now = 0
    /\ reg = [p \in Procs |-> Idle]
    /\ registered = {}
    /\ issued = {}
    /\ last = NoExchange
    /\ later = {}
    /\ LimiterInit(1..MaxLimit, Windows, { FALSE }, { PruneAbove })
    /\ ServerUp
    /\ GateInit({ << >> })

SpecRecovery == InitRecovery /\ [][NextRecovery]_vars

\* ---- specification of the limiter under requests that arrive together ----

\* requests are handled as they arrive, and then each process sends one request that
\* waits for its turn

NextQueue ==
    \/ \E p \in Procs, ip \in Ips : Arrive(p, ip)
    \/ \E p \in Procs : Handle(p)
    \/ (\A p \in Procs : inflight[p] = << >>) /\ \E ip \in Ips : RateLimit(ip)
    \/ \E ip \in Ips : \E i \in 1..Len(admitted[ip]) :
          Advance(admitted[ip][i] + windowMs)

SpecQueue == InitRecovery /\ [][NextQueue]_vars

\* ---- specification of the routes to the public handlers ----

NextRoutes ==
    \/ \E mount \in AppMounts, prefix \in RouterMounts, route \in PublicRoutes, ip \in Ips :
          Dispatch(mount, prefix, route, ip)
    \/ \E ip \in Ips : \E i \in 1..Len(admitted[ip]) :
          Advance(admitted[ip][i] + windowMs)

SpecRoutes == InitRecovery /\ [][NextRoutes]_vars

(***************************************************************************)
(* Properties                                                              *)
(***************************************************************************)
Done(p) == reg[p].pc = "done"

Created(p) == Done(p) /\ reg[p].response.status = 201

\* the answer to a registration whose address is taken
DuplicateEmailResponse ==
    Response(400,
        [BodyBase EXCEPT !.message = "Validation failed",
            !.errors = << FieldError("email", "An account with this email already exists") >>],
        << >>)

\* C1: of the register calls for one normalized address that all got past the
\* lookup (they interleaved), at most one is answered 201 and every call the
\* INSERT refused is answered with the duplicate ValidationError, not a generic
\* error.
C1_RaceLosersGetDuplicateError ==
    /\ \A p, q \in Procs :
          (p # q /\ Created(p) /\ Created(q)) => reg[p].email # reg[q].email
    /\ \A p \in Procs :
          (Done(p) /\ reg[p].caught.code = "23505")
              => reg[p].response = DuplicateEmailResponse

\* C2: the table never holds two rows with one email.
C2_OneRowPerEmail ==
    \A u, v \in users : u.email = v.email => u = v

\* C2 witness: the constraint has refused a second row for a stored address.
C2_Witness ==
    \E p \in Procs :
        /\ Done(p)
        /\ reg[p].caught = PgUniqueViolation
        /\ \E u \in users : u.email = reg[p].email

\* C3: a registration that ends because its address is already stored, whether the
\* lookup or the constraint found that out, is answered 400 with an error for the
\* field email, never 500.
C3_UsedEmailNever500 ==
    \A p \in Procs :
        (/\ Done(p)
         /\ \/ reg[p].caught.message = "User already exists"
            \/ reg[p].caught = PgUniqueViolation)
            => /\ reg[p].response.status = 400
               /\ \E i \in 1..Len(reg[p].response.body.errors) :
                     reg[p].response.body.errors[i].field = "email"


\* C4: a login with exactly the credentials a register was answered 201 for, the
\* store answering, is answered 200 with the user register returned, whose email is
\* the trimmed and lowercased address.
C4_RegisterThenLogin ==
    (last.op = "login" /\ last.registeredAs # << >> /\ last.dbOk)
        => /\ last.response.status = 200
           /\ last.response.body.user = last.registeredAs
           /\ last.registeredAs[1].email = toLowerCase(trim(last.credentials.email.s))

\* C4 witness: the client registered and logged in with an address spelled with
\* capitals and blanks around it.
C4_Witness ==
    /\ last.op = "login"
    /\ last.registeredAs # << >>
    /\ last.dbOk
    /\ last.credentials.email = Str(EmailAVariant)
    /\ last.response.status = 200
    /\ last.response.body.user[1].email = EmailA

\* the one answer to every well-formed login that does not authenticate
LoginRejected ==
    Response(401, [BodyBase EXCEPT !.message = "Invalid email or password"], << >>)

WellFormedLogin == last.op = "login" /\ Len(validateLoginData(last.credentials)) = 0

\* C5: a well-formed login for an address the lookup did not find and a well-formed
\* login with a password that does not match the found user get the same status,
\* body and cookies.
C5_LoginFailuresIndistinguishable ==
    (/\ WellFormedLogin
     /\ \/ last.found = << >>
        \/ ~verifyPassword(last.found[1], last.credentials.password))
        => last.response = LoginRejected

\* C5 witness: a login with the wrong password for a registered address was rejected.
C5_Witness ==
    /\ WellFormedLogin
    /\ last.found # << >>
    /\ ~verifyPassword(last.found[1], last.credentials.password)
    /\ last.response.status = 401


Exists(id) == \E u \in users : u.id = id

\* C6: a token handed out verifies, for a user that exists, at every time before
\* iat + its configured expiry, and from that time on is refused as expired
\* (TokenExpiredError), not as invalid.
C6_ValidUntilExpiryThenExpired ==
    \A pair \in issued :
        LET access == pair.accessToken
            refresh == pair.refreshToken
            a == verifyAccessToken(access, users, now, TRUE)
            r == verifyRefreshToken(refresh, users, now, TRUE)
        IN  /\ (now < access.claims.iat + accessTokenExpiry /\ Exists(access.claims.userId))
                  => (a.error = NoError /\ a.user[1].id = access.claims.userId)
            /\ now >= access.claims.iat + accessTokenExpiry
                  => a.error = TokenExpiredError("Access token expired")
            /\ (now < refresh.claims.iat + refreshTokenExpiry /\ Exists(refresh.claims.userId))
                  => (r.error = NoError /\ r.user[1].id = refresh.claims.userId)
            /\ now >= refresh.claims.iat + refreshTokenExpiry
                  => r.error = TokenExpiredError("Refresh token expired")

\* C6 witness: the gate has refused, as expired, an access token it was shown at the
\* second of its expiry.
C6_Witness ==
    \E pair \in issued :
        /\ last.op = "/me"
        /\ last.request.authorization = << pair.accessToken >>
        /\ last.at = pair.accessToken.claims.exp
        /\ last.response.body.code = "TOKEN_EXPIRED"

\* C7: at every time, an access token handed out is refused as invalid by
\* verifyRefreshToken and by POST /refresh, and a refresh token handed out is
\* refused as invalid by verifyAccessToken and by the gate.
C7_KindsNotInterchangeable ==
    \A pair \in issued :
        /\ verifyRefreshToken(pair.accessToken, users, now, TRUE).error
              = AuthenticationError("Invalid refresh token")
        /\ verifyAccessToken(pair.refreshToken, users, now, TRUE).error
              = AuthenticationError("Invalid access token")
        /\ refreshAccessToken(pair.accessToken, users, now, TRUE).tokens = NoTokens
        /\ LET gate == verifyToken(NODE_ENV,
                           Request(<< pair.refreshToken >>, << >>, << >>, << >>),
                           users, now, TRUE)
           IN  ~gate.next /\ gate.response.body.code = "INVALID_TOKEN"

\* C7 witness: POST /refresh was sent an unexpired access token as its refresh
\* token and answered 401.
C7_Witness ==
    \E pair \in issued :
        /\ last.op = "refresh"
        /\ presentedRefreshToken(transport, last.request) = << pair.accessToken >>
        /\ last.at < pair.accessToken.claims.exp
        /\ last.response.status = 401

\* the access token a response delivers, in its body or as the cookie accessToken
DeliveredAccess(response) ==
    IF response.body.accessToken # << >>
    THEN response.body.accessToken
    ELSE IF \E i \in 1..Len(response.cookies) : response.cookies[i].name = "accessToken"
    THEN response.cookies[CHOOSE i \in 1..Len(response.cookies) :
                              response.cookies[i].name = "accessToken"].value
    ELSE << >>

RefreshGranted == last.op = "refresh" /\ last.response.status = 200

\* C8: the access token a granted refresh delivers is accepted, at the time of the
\* refresh and at every later time before its expiry, by verifyAccessToken and by
\* the gate, for the user of the refresh token.
C8_RefreshedAccessTokenVerifies ==
    RefreshGranted =>
        LET new == DeliveredAccess(last.response)
            old == presentedRefreshToken(transport, last.request)[1]
        IN  /\ new # << >>
            /\ \A t \in { last.at, now } :
                  t < last.at + accessTokenExpiry =>
                     LET v == verifyAccessToken(new[1], users, t, TRUE)
                         gate == verifyToken(NODE_ENV, Request(new, << >>, << >>, << >>),
                                             users, t, TRUE)
                     IN  /\ v.error = NoError
                         /\ v.user[1].id = old.claims.userId
                         /\ gate.next
                         /\ gate.user[1].id = old.claims.userId

\* C8 witness: a refresh was granted for a refresh token whose access token had
\* already expired.
C8_Witness ==
    /\ RefreshGranted
    /\ last.at >= presentedRefreshToken(transport, last.request)[1].claims.iat
                     + accessTokenExpiry
    /\ DeliveredAccess(last.response) # << >>

RefreshFailed == last.op = "refresh" /\ last.response.status # 200

CookiesCleared(response) == response.cookies = clearAuthCookies(NODE_ENV)

\* C9 as claimed: every failing POST /refresh, the one without a refresh token
\* included, answers 401 with both cookies cleared.
C9_EveryFailedRefreshClears ==
    RefreshFailed => (last.response.status = 401 /\ CookiesCleared(last.response))

\* C9 as amended: every failing POST /refresh answers 401; it clears both cookies
\* when a refresh token was presented and refused, and sets no cookie when none was
\* presented.
C9_RejectedRefreshClears ==
    RefreshFailed =>
        /\ last.response.status = 401
        /\ presentedRefreshToken(transport, last.request) # << >>
              => CookiesCleared(last.response)
        /\ presentedRefreshToken(transport, last.request) = << >>
              => last.response.cookies = << >>

\* C9 witness: an expired refresh token was refused with 401 and both cookies
\* cleared.
C9_Witness ==
    /\ RefreshFailed
    /\ \E pair \in issued :
          /\ presentedRefreshToken(transport, last.request) = << pair.refreshToken >>
          /\ last.at >= pair.refreshToken.claims.exp
    /\ last.response.status = 401
    /\ CookiesCleared(last.response)

\* C10: every POST /logout, whatever token it carries or none, is answered 200
\* success with both cookies cleared.
C10_LogoutAlwaysSucceeds ==
    last.op = "/logout" =>
        /\ last.response.status = 200
        /\ last.response.body.success
        /\ CookiesCleared(last.response)


\* the request last answered went through the gate
ThroughGate == last.op \in GatedRoutes

\* the bearer token of the request last answered
Bearer == last.request.authorization[1]

\* the token carries the signature of the access secret over its own claims
CorrectlySigned(token) == token.sig = Signature(token.claims, jwtSecret)

\* the response of the handler behind the gate, run for the user with this id
HandlerRan(id) ==
    /\ last.response.status = 200
    /\ last.response.body.code = ""
    /\ last.op = "/me" =>
          /\ last.response.body.user # << >>
          /\ last.response.body.user[1].id = id
          /\ \E u \in users : toSafeObject(u) = last.response.body.user[1]

GateAnswered(code) == last.response.status = 401 /\ last.response.body.code = code

\* C11: the gate classifies every request: without a token it answers 401 NO_TOKEN;
\* with a correctly signed, unexpired access token whose user is found the handler
\* runs for that user; correctly signed but expired gives 401 TOKEN_EXPIRED; a token
\* not signed with the access secret (edited, garbage, refresh token) gives 401
\* INVALID_TOKEN, as does a good token whose user is not found; the two codes are
\* never given for the other's case.
C11_GateClassification ==
    ThroughGate =>
        /\ last.request.authorization = << >> => GateAnswered("NO_TOKEN")
        /\ last.request.authorization # << >> =>
              /\ (CorrectlySigned(Bearer) /\ last.at < Bearer.claims.exp /\ last.dbOk
                    /\ Exists(Bearer.claims.userId))
                    => HandlerRan(Bearer.claims.userId)
              /\ (CorrectlySigned(Bearer) /\ last.at < Bearer.claims.exp /\ ~last.dbOk)
                    => GateAnswered("INVALID_TOKEN")
              /\ (CorrectlySigned(Bearer) /\ last.at >= Bearer.claims.exp)
                    => GateAnswered("TOKEN_EXPIRED")
              /\ ~CorrectlySigned(Bearer) => GateAnswered("INVALID_TOKEN")
              /\ GateAnswered("TOKEN_EXPIRED")
                    => (CorrectlySigned(Bearer) /\ last.at >= Bearer.claims.exp)

\* C11 witness: an access token that had expired was edited to carry a later expiry,
\* and the gate answered INVALID_TOKEN, not TOKEN_EXPIRED.
C11_Witness ==
    /\ ThroughGate
    /\ \E pair \in issued :
          /\ last.request.authorization = << Tampered(pair.accessToken) >>
          /\ last.at >= pair.accessToken.claims.exp
    /\ GateAnswered("INVALID_TOKEN")


\* the user a token pair was issued for has no row in the table
Revoked(pair) == ~Exists(pair.accessToken.claims.userId)

\* what verification answers for a token whose user has no row: expired if it has
\* expired, 'User not found' otherwise
RefusedAs(result, token, expiredMessage) ==
    result.error = IF now >= token.claims.exp
                   THEN TokenExpiredError(expiredMessage)
                   ELSE AuthenticationError("User not found")

\* both tokens of the pair fail verification, the gate rejects the access token and
\* refresh issues nothing for the refresh token
Refused(pair) ==
    /\ RefusedAs(verifyAccessToken(pair.accessToken, users, now, TRUE),
                 pair.accessToken, "Access token expired")
    /\ RefusedAs(verifyRefreshToken(pair.refreshToken, users, now, TRUE),
                 pair.refreshToken, "Refresh token expired")
    /\ ~verifyToken(NODE_ENV, Request(<< pair.accessToken >>, << >>, << >>, << >>),
                    users, now, TRUE).next
    /\ refreshAccessToken(pair.refreshToken, users, now, TRUE).tokens = NoTokens

\* C12: once the user of a token pair has no row, it never has one again (ids are
\* not handed out twice, also not to a new registration of the same email), and in
\* every state from the deletion on both tokens fail verification with 'User not
\* found' while unexpired, the gate rejects and refresh issues nothing.
C12_RevocationByDeletion ==
    [][\A pair \in issued' :
          /\ (pair \in issued /\ Revoked(pair)) => Revoked(pair)'
          /\ Revoked(pair)' => Refused(pair)']_vars

\* C12 witness: the gate has refused, with 'User not found', an unexpired access
\* token whose user was deleted, after the same email was registered again.
C12_Witness ==
    /\ last.op = "/me"
    /\ \E pair \in issued :
          /\ last.request.authorization = << pair.accessToken >>
          /\ Revoked(pair)
          /\ last.at < pair.accessToken.claims.exp
          /\ \E u \in users : u.email = pair.accessToken.claims.email
    /\ last.response.status = 401
    /\ last.response.body.message = "User not found"


\* the limiter has answered a request of an address that had already been admitted
\* maxRequests times inside the window that ends at the request
OverLimit == limited.ip # "" /\ limited.prior >= maxRequests

Rejected ==
    /\ limited.answer.status = 429
    /\ limited.answer.retryAfter >= 1
    /\ limited.answer.retryAfter <= Ceil(windowMs, 1000)

\* C13 as claimed: a request of an address that already has maxRequests admitted
\* requests inside the window is rejected with 429 and a retryAfter of at least one
\* second, whatever the environment.
C13_OverLimitRejected == OverLimit => Rejected

\* C13 as amended: unless the limiter is switched off (NODE_ENV is not production
\* and DISABLE_RATE_LIMIT is 'true'), a request of an address that already has
\* maxRequests admitted requests inside the window is rejected with 429 and a
\* retryAfter of at least one second and at most the window; when it is switched
\* off the request is admitted.
C13_OverLimitRejectedWhenOn ==
    OverLimit =>
        IF skipped(NODE_ENV, DISABLE_RATE_LIMIT) THEN limited.answer = Admitted ELSE Rejected

\* C13 witness: a request was rejected less than a second before the oldest request
\* of its window left the window, and the hint was rounded up to one second.
C13_Witness ==
    /\ OverLimit
    /\ limited.answer.status = 429
    /\ limited.answer.retryAfter = 1
    /\ limited.at = admitted[limited.ip][Len(admitted[limited.ip]) - maxRequests + 1]
                        + windowMs - 1
    /\ windowMs > 1000


\* a step in which the limiter handled a request of an address other than a
OtherRequest(a) ==
    /\ limited'.ip \notin { a, "" }
    /\ clock' = clock
    /\ << requests, crowd, admitted, limited >>' # << requests, crowd, admitted, limited >>

\* what a request of address a would be answered at time t, before and after the step
SameAnswers(a) ==
    \A t \in { clock, clock + 1, clock + windowMs - 1, clock + windowMs } :
        limiterAnswer(mapAfterPrune(requests', crowd', windowMs, t), a, maxRequests,
                      windowMs, t)
          = limiterAnswer(mapAfterPrune(requests, crowd, windowMs, t), a, maxRequests,
                          windowMs, t)

\* C14 as claimed: a request of another address changes neither the answers to A nor
\* anything the limiter has recorded for A.
C14_OtherAddressChangesNothing ==
    [][\A a \in Ips :
          OtherRequest(a) =>
              /\ SameAnswers(a)
              /\ (a \in DOMAIN requests') = (a \in DOMAIN requests)
              /\ mapGet(requests', a) = mapGet(requests, a)]_vars

\* C14 as amended: a request of another address changes neither the answers to A,
\* now or later, nor the timestamps recorded for A that lie inside the window; the
\* timestamps of A that have left the window may be dropped, and A's key with them,
\* when the Map holds more than 1000 addresses.
C14_OtherAddressChangesNoOutcome ==
    [][\A a \in Ips :
          OtherRequest(a) =>
              /\ SameAnswers(a)
              /\ admitted'[a] = admitted[a]
              /\ filterRecent(mapGet(requests', a), clock - windowMs)
                    = filterRecent(mapGet(requests, a), clock - windowMs)
              /\ \A i \in 1..Len(mapGet(requests', a)) :
                    \E j \in 1..Len(mapGet(requests, a)) :
                        mapGet(requests', a)[i] = mapGet(requests, a)[j]]_vars

\* C14 witness: with the limiter on, an address was admitted while another one had
\* used up its limit inside the same window.
C14_Witness ==
    /\ ~skipped(NODE_ENV, DISABLE_RATE_LIMIT)
    /\ limited.ip # ""
    /\ limited.answer = Admitted
    /\ \E a \in Ips \ { limited.ip } :
          Len(filterRecent(mapGet(requests, a), clock - windowMs)) >= maxRequests


\* C15: the answer to a successful registration carries the created identity and
\* nothing else: no access or refresh token in the body and no cookie; and as long
\* as no login has succeeded, every request to a gated route, whatever it presents,
\* is answered 401.
C15_RegisterNeverAuthenticates ==
    /\ \A p \in Procs :
          Created(p) =>
              /\ reg[p].response.body.user # << >>
              /\ DOMAIN reg[p].response.body.user[1] = {"id", "email", "created_at"}
              /\ reg[p].response.body.accessToken = << >>
              /\ reg[p].response.body.refreshToken = << >>
              /\ reg[p].response.cookies = << >>
    /\ (issued = {} /\ ThroughGate) =>
          (last.response.status = 401 /\ ~last.response.body.success)

\* C15 witness: a user is registered, no login has succeeded, and a gated request
\* presenting a made-up token for that user was answered 401.
C15_Witness ==
    /\ \E p \in Procs : Created(p) /\ reg[p].response.body.user[1].id = 1
    /\ issued = {}
    /\ ThroughGate
    /\ last.request.authorization = << ForgedToken >>
    /\ last.response.status = 401


\* the request last answered carried the access token of this pair where the
\* deployed login delivers it: as Bearer token (body), as cookie accessToken (cookie)
CarriedAsDelivered(pair) ==
    IF transport = "body"
    THEN last.request.authorization = << pair.accessToken >>
    ELSE last.request.cookies.accessToken = << pair.accessToken >>

\* C16: in either transport, GET /me carrying the access credential of a login as
\* the login delivered it, before its expiry and with the store answering, is
\* answered 200 with the user of the login.
C16_BothTransportsReachMe ==
    \A pair \in issued :
        (last.op = "/me" /\ CarriedAsDelivered(pair) /\ last.dbOk
            /\ last.at < pair.accessToken.claims.exp)
          => /\ last.response.status = 200
             /\ last.response.body.user # << >>
             /\ last.response.body.user[1].id = pair.accessToken.claims.userId


\* an address without surrounding white space and without upper-case letters
Normalized(email) ==
    /\ \A i \in 1..Len(email) : email[i] = ToLowerChar(email[i])
    /\ Len(email) > 0 => (~IsSpace(email[1]) /\ ~IsSpace(email[Len(email)]))

\* every email in the table is normalized and is the trimmed, lower-cased form of
\* what its registration sent
StoredNormalized ==
    /\ \A u \in users : Normalized(u.email)
    /\ \A r \in registered :
          /\ Normalized(r.user.email)
          /\ r.user.email = toLowerCase(trim(r.email.s))

\* a step that answers a well-formed login, the store answering, finds the user whose
\* stored email is the trimmed, lower-cased form of the spelling sent and, the
\* password matching, answers 200 with that user
LoginResolves ==
    (last' # last /\ last'.op = "login" /\ last'.dbOk
        /\ Len(validateLoginData(last'.credentials)) = 0)
      => \A u \in users :
            toLowerCase(trim(last'.credentials.email.s)) = u.email
              => /\ last'.found # << >>
                 /\ last'.found[1].id = u.id
                 /\ verifyPassword(u, last'.credentials.password)
                       => /\ last'.response.status = 200
                          /\ last'.response.body.user = << toSafeObject(u) >>

\* C17: every email stored by register is in normalized form, and login looks up by
\* the normalized form of its input, so that every case or white-space spelling of a
\* registered email resolves to the same user.
C17_EmailsNormalized == []StoredNormalized /\ [][LoginResolves]_vars

\* C17 witness: the address was registered in upper case with surrounding spaces and
\* a login spelling it in lower case was answered 200 with that user.
C17_Witness ==
    /\ \E r \in registered :
          /\ r.email = Str(EmailAVariant)
          /\ last.response.body.user = << r.user >>
    /\ last.op = "login"
    /\ last.credentials.email = Str(EmailA)
    /\ last.response.status = 200


\* the tokens a response delivers, in its body and in its cookies
TokensIn(response) ==
    { response.body.accessToken[i] : i \in 1..Len(response.body.accessToken) }
      \cup { response.body.refreshToken[i] : i \in 1..Len(response.body.refreshToken) }
      \cup UNION { { response.cookies[c].value[i] : i \in 1..Len(response.cookies[c].value) }
                   : c \in 1..Len(response.cookies) }

\* the response carries users only as {id, email, created_at}, tokens only with the
\* claims userId, email, iat, exp, and otherwise only message texts
NoHashIn(response) ==
    /\ \A i \in 1..Len(response.body.user) :
          DOMAIN response.body.user[i] = {"id", "email", "created_at"}
    /\ \A token \in TokensIn(response) :
          DOMAIN token.claims = {"userId", "email", "iat", "exp"}
    /\ response.body.message \in STRING
    /\ \A i \in 1..Len(response.body.error) : response.body.error[i] \in STRING
    /\ \A i \in 1..Len(response.body.errors) :
          /\ response.body.errors[i].field \in STRING
          /\ response.body.errors[i].message \in STRING

\* C18: no answer of register, login, refresh, /me, /verify, /protected or /public,
\* success or error, in development or production, carries a stored password hash;
\* every user in an answer is the projection {id, email, created_at}.
C18_HashNeverSent ==
    /\ \A p \in Procs : NoHashIn(reg[p].response)
    /\ NoHashIn(last.response)

\* C18 witness: a login was answered 200 with the user, for a row that holds a hash.
C18_Witness ==
    /\ last.op = "login"
    /\ last.response.status = 200
    /\ \E u \in users :
          /\ u.password # << >>
          /\ last.response.body.user = << [id |-> u.id, email |-> u.email,
                                           created_at |-> u.created_at] >>


\* the process exits when its check fails: index.js, and app.js outside development
Strict == entry = "index.js" \/ ~isDev(NODE_ENV)

ListeningOrAbout == server \in {"listen", "listening"}

StillGood(token, secret) ==
    /\ token.sig = Signature(token.claims, secret)
    /\ now < token.claims.exp
    /\ Exists(token.claims.userId)

\* every pair handed out verifies exactly when it is still good, whatever has
\* happened since
EarlierVerify ==
    \A pair \in issued :
        /\ verifyAccessToken(pair.accessToken, users, now, TRUE).error = NoError
               <=> StillGood(pair.accessToken, jwtSecret)
        /\ verifyRefreshToken(pair.refreshToken, users, now, TRUE).error = NoError
               <=> StillGood(pair.refreshToken, jwtRefreshSecret)

\* a pair handed out earlier and presented in this step is answered by what it is
\* at this instant: /me and /logout give 200 exactly when the access token is still
\* good, refresh gives 200 exactly when the refresh token is still good
EarlierAnswered ==
    \A pair \in issued :
        /\ (/\ last' # last
            /\ last'.op \in {"/me", "/logout"}
            /\ last'.request.authorization = << pair.accessToken >>
            /\ last'.dbOk)
              => (last'.response.status = 200 <=> StillGood(pair.accessToken, jwtSecret))
        /\ (/\ last' # last
            /\ last'.op = "refresh"
            /\ presentedRefreshToken(transport, last'.request) = << pair.refreshToken >>
            /\ last'.dbOk)
              => (last'.response.status = 200
                     <=> StillGood(pair.refreshToken, jwtRefreshSecret))

\* C20: tokens handed out earlier are not invalidated by later operations: after any
\* sequence of login, refresh and logout for the same user, an earlier access or
\* refresh token verifies, and is accepted by /me, /logout and refresh, exactly when
\* it is correctly signed, unexpired and its user still exists.
C20_EarlierTokensStayValid == []EarlierVerify /\ [][EarlierAnswered]_vars

\* C20 witness: /me has just accepted the access token of a pair after a later login,
\* a later refresh and a logout made with that very token, and a newer pair exists.
C20_Witness ==
    \E pair \in issued :
        /\ last.op = "/me"
        /\ last.request.authorization = << pair.accessToken >>
        /\ last.response.status = 200
        /\ \A op \in SessionOps : << pair, op >> \in later
        /\ \E newer \in issued : newer.accessToken.claims.iat > pair.accessToken.claims.iat

\* the request last answered reached the store and the store's query threw
StoreFailedAtLogin == last.op = "login" /\ WellFormedLogin /\ ~last.dbOk

StoreFailedAtGate ==
    /\ last.op \in ProfileRoutes
    /\ last.request.authorization # << >>
    /\ CorrectlySigned(Bearer)
    /\ last.at < Bearer.claims.exp
    /\ ~last.dbOk

\* C21: a failure of the store that the caller did not cause, at login's lookup by
\* email or at the gate's re-fetch by id, is answered 500 and never as a failed
\* authentication.
C21_StoreFailureIsInternalError ==
    (StoreFailedAtLogin \/ StoreFailedAtGate) => last.response.status = 500

\* the register request of p has been answered with a failure
Failed(p) == Done(p) /\ reg[p].response.status # 201

\* a step of the register request of p that does not end in 201 leaves the table as
\* it was, and no step takes a row away or changes one
FailedRegisterKeepsStore ==
    /\ \A p \in Procs : (reg'[p] # reg[p] /\ ~Created(p)') => users' = users
    /\ users \subseteq users'

\* C22: a register that fails, by validation, by a duplicate address or by an
\* internal error, leaves the rows of the table as they were: no step of a request
\* that is not answered 201 creates or changes a row.
C22_FailedRegisterChangesNothing == [][FailedRegisterKeepsStore]_vars

\* C22 witness: with a row in the table, one register has been refused as a duplicate
\* and another has failed with 500.
C22_Witness ==
    /\ users # {}
    /\ \E p, q \in Procs :
          /\ Failed(p) /\ reg[p].response.status = 400
          /\ reg[p].caught.message = "User already exists"
          /\ Failed(q) /\ reg[q].response.status = 500

\* a step of login, refresh, logout or of a gate is a step that answers a request or
\* runs a middleware; the steps of register change neither last nor passage
AuthFlowStep == last' # last \/ passage' # passage

\* the auth flow leaves the table and its sequence alone, and the table changes only
\* by a register that is answered 201 and adds rows without touching the others
StoreFrame ==
    /\ AuthFlowStep => (users' = users /\ nextId' = nextId)
    /\ users' # users =>
          /\ \E p \in Procs : reg'[p] # reg[p] /\ Created(p)'
          /\ users \subseteq users'

\* C23: login, verification of access and refresh tokens, refresh, logout and the
\* three gates leave the table unchanged whatever they answer; only register adds
\* a row, and no row is updated or deleted.
C23_AuthFlowNeverWrites == [][StoreFrame]_vars

\* C23 witness: with two rows in the table, a refresh has been answered 200 and
\* requireAdmin has let a request through.
C23_Witness ==
    /\ Cardinality(users) = 2
    /\ last.op = "refresh"
    /\ last.response.status = 200
    /\ passage.gate = "requireAdmin"
    /\ passage.next = 1

\* the request last answered by the gate carried a token that is past its expiry
\* and does not carry the signature of the access secret
ExpiredAndBadlySigned ==
    /\ ThroughGate
    /\ last.request.authorization # << >>
    /\ ~CorrectlySigned(Bearer)
    /\ last.at >= Bearer.claims.exp

\* C24: the gate answers TOKEN_EXPIRED only for a token that carries the signature of
\* the access secret; a token past its expiry that does not, such as an expired
\* refresh token or an expired edited token, is answered INVALID_TOKEN.
C24_ExpiredOnlyWhenSigned ==
    /\ (ThroughGate /\ GateAnswered("TOKEN_EXPIRED")) =>
          (last.request.authorization # << >> /\ CorrectlySigned(Bearer))
    /\ ExpiredAndBadlySigned => GateAnswered("INVALID_TOKEN")

\* C24 witness: a refresh token that was handed out, presented as the bearer token
\* after its expiry, has been answered INVALID_TOKEN.
C24_Witness ==
    /\ ExpiredAndBadlySigned
    /\ \E pair \in issued : Bearer = pair.refreshToken
    /\ GateAnswered("INVALID_TOKEN")

\* both tokens of the pair carry the id and the email of this user, each under the
\* signature of its own secret
PairOf(tokens, user) ==
    /\ tokens.accessToken.claims.userId = user.id
    /\ tokens.accessToken.claims.email = user.email
    /\ tokens.accessToken.sig = Signature(tokens.accessToken.claims, jwtSecret)
    /\ tokens.refreshToken.claims.userId = user.id
    /\ tokens.refreshToken.claims.email = user.email
    /\ tokens.refreshToken.sig = Signature(tokens.refreshToken.claims, jwtRefreshSecret)

\* nothing was handed out and the response carries no token
NothingIssued(tokens) ==
    /\ tokens = NoTokens
    /\ issued' = issued
    /\ TokensIn(last'.response) = {}

\* a login answered in this step: by 200 with a whole pair for the user whose
\* password was verified, or with nothing
LoginAllOrNothing ==
    (last' # last /\ last'.op = "login") =>
        LET result == login(last'.credentials, users, now, last'.dbOk)
        IN  IF last'.response.status = 200
            THEN /\ \E u \in users :
                       /\ u.email = sanitizeEmail(last'.credentials.email)
                       /\ verifyPassword(u, last'.credentials.password)
                       /\ PairOf(result.tokens, u)
                 /\ issued' = issued \cup { result.tokens }
            ELSE NothingIssued(result.tokens)

\* a refresh answered in this step: by 200 with a whole pair for the user of the
\* refresh token presented, or with nothing
RefreshAllOrNothing ==
    (last' # last /\ last'.op = "refresh") =>
        LET presented == presentedRefreshToken(transport, last'.request)
            result == refreshAccessToken(presented[1], users, now, last'.dbOk)
        IN  IF last'.response.status = 200
            THEN /\ \E u \in users :
                       /\ u.id = presented[1].claims.userId
                       /\ PairOf(result.tokens, u)
                 /\ issued' = issued \cup { result.tokens }
            ELSE NothingIssued(IF presented = << >> THEN NoTokens ELSE result.tokens)

\* every pair handed out is whole: two tokens for one user
PairsWhole ==
    \A pair \in issued :
        PairOf(pair, [id |-> pair.accessToken.claims.userId,
                      email |-> pair.accessToken.claims.email])

\* C25: tokens are issued all or nothing: a login or a refresh that succeeds hands
\* out an access token and a refresh token that both carry the id and the email of
\* the user just authenticated, and one that fails hands out no token.
C25_PairOrNothing == []PairsWhole /\ [][LoginAllOrNothing /\ RefreshAllOrNothing]_vars

\* C25 witness: a refresh has been answered 200 and two pairs have been handed out.
C25_Witness ==
    /\ RefreshGranted
    /\ Cardinality(issued) = 2

\* the token of the request is one the service accepts at this instant: signed with
\* the access secret, unexpired, and its user is found
AcceptableNow(request, dbOk) ==
    /\ request.authorization # << >>
    /\ CorrectlySigned(request.authorization[1])
    /\ now < request.authorization[1].claims.exp
    /\ dbOk
    /\ Exists(request.authorization[1].claims.userId)

\* a run of optionalAuth in this step: no response, one next(), and req.user is the
\* user of an acceptable token and null otherwise; the handler behind it answers
OptionalPasses ==
    (passage' # passage /\ passage'.gate = "optionalAuth") =>
        /\ passage'.next = 1
        /\ passage'.response = NoResponse
        /\ last'.op = "/public"
        /\ last'.response.status = 200
        /\ IF AcceptableNow(passage'.request, last'.dbOk)
           THEN /\ passage'.user # << >>
                /\ passage'.user[1].id = passage'.request.authorization[1].claims.userId
                /\ \E u \in users : toSafeObject(u) = toSafeObject(passage'.user[1])
           ELSE passage'.user = << >>

\* C26: the optional gate never rejects: without a token, with a valid, an expired
\* or an invalid token, and when verification fails, optionalAuth sends no response
\* and calls next() once, with req.user the verified user for a valid token and
\* null otherwise.
C26_OptionalGateNeverRejects ==
    /\ [](passage.gate = "optionalAuth" => (passage.next = 1 /\ passage.response = NoResponse))
    /\ [][OptionalPasses]_vars

\* C26 witness: optionalAuth has let through, with req.user null, a request that
\* carried an access token past its expiry.
C26_Witness ==
    /\ passage.gate = "optionalAuth"
    /\ last.op = "/public"
    /\ last.request = passage.request
    /\ \E pair \in issued : passage.request.authorization = << pair.accessToken >>
    /\ last.dbOk
    /\ last.at >= passage.request.authorization[1].claims.exp
    /\ passage.next = 1
    /\ passage.user = << >>

\* the piece of the value of ADMIN_EMAILS that lies between positions i and j is an
\* entry of the list: commas, or the ends of the value, stand on both sides of it
EntryAt(s, i, j) ==
    /\ (i = 1 \/ s[i - 1] = ",")
    /\ (j = Len(s) \/ s[j + 1] = ",")
    /\ \A k \in i..j : s[k] # ","

\* the address is an entry of the configured list, blanks around an entry aside
Listed(email) ==
    /\ ADMIN_EMAILS # << >>
    /\ LET s == ADMIN_EMAILS[1]
       IN  \E i \in 1..Len(s), j \in 1..Len(s) :
              /\ i <= j
              /\ EntryAt(s, i, j)
              /\ trim(SubSeq(s, i, j)) = email

\* C27: the elevated gate lets a request proceed exactly when req.user is set and its
\* email is on the list configured in ADMIN_EMAILS; without req.user it answers 401,
\* with a user who is not on the list 403, and with the list unset or empty nobody
\* passes.
C27_AdminOnlyListed ==
    passage.gate = "requireAdmin" =>
        /\ passage.next = 1 <=> (passage.user # << >> /\ Listed(passage.user[1].email))
        /\ passage.user = << >> => (passage.next = 0 /\ passage.response.status = 401)
        /\ (passage.user # << >> /\ ~Listed(passage.user[1].email)) =>
              (passage.next = 0 /\ passage.response.status = 403)
        /\ (ADMIN_EMAILS = << >> \/ ADMIN_EMAILS = << << >> >>) => passage.next = 0
        /\ passage.next = 1 => passage.response = NoResponse

\* C27 witness: with two addresses configured, blanks around the first, requireAdmin
\* has let the user with the first address through.
C27_Witness ==
    /\ passage.gate = "requireAdmin"
    /\ passage.next = 1
    /\ ADMIN_EMAILS # << >>
    /\ Len(adminEmails(ADMIN_EMAILS)) = 2
    /\ passage.user[1].email = EmailA

\* how many requests of this address were admitted at times in (t - windowMs, t]
AdmittedWithin(ip, t) ==
    Cardinality({ i \in 1..Len(admitted[ip]) :
                     admitted[ip][i] > t - windowMs /\ admitted[ip][i] <= t })

\* the instants at which a window can be fullest: the present, and every time at
\* which a request was admitted
Instants == { clock } \cup UNION { { admitted[ip][i] : i \in 1..Len(admitted[ip]) } : ip \in Ips }

LimiterOn == ~skipped(NODE_ENV, DISABLE_RATE_LIMIT)

\* C28: while the limiter is on, no address has more than maxRequests admitted
\* requests in any window (t - windowMs, t], whatever was sent before and whether or
\* not the Map was pruned.
C28_WindowBound ==
    LimiterOn => \A ip \in Ips, t \in Instants : AdmittedWithin(ip, t) <= maxRequests

\* C28 witness: an address with a full window has been turned away by a request that
\* also ran the pruning of the Map.
C28_Witness ==
    /\ LimiterOn
    /\ crowd = PruneAbove
    /\ limited.ip # ""
    /\ limited.answer.status = 429
    /\ limited.at = clock
    /\ AdmittedWithin(limited.ip, clock) = maxRequests


\* ---- C29 ----

\* a request of address ip has just been answered
AnsweredNow(ip) == limited' # limited /\ limited'.ip = ip

\* a request made when a hint of the address is due is admitted
Recovered(hint, ip) ==
    (hint # << >> /\ clock >= hint[1].due /\ AnsweredNow(ip)) => limited'.answer = Admitted

\* C29 as stated: after a request of an address is rejected with the hint retryAfter, a
\* request of that address made at least retryAfter seconds later is admitted
C29_AdmittedAfterRetryAfter ==
    [][\A ip \in Ips : Recovered(hinted[ip].ever, ip)]_vars

\* C29: after a request of an address is rejected with the hint retryAfter, a request
\* of that address made at least retryAfter seconds later is admitted, provided no
\* request of the address has been admitted in between; rejected requests are not
\* recorded, so further rejected attempts do not postpone it
C29_AdmittedAfterRetryAfterUnlessAdmittedSince ==
    [][\A ip \in Ips : Recovered(hinted[ip].pending, ip)]_vars

\* an address was rejected, did not get in before its hint was due, and is admitted then
C29_Witness ==
    /\ limited.ip # "" /\ limited.answer = Admitted /\ limited.at = clock
    /\ hinted[limited.ip].ever # << >>
    /\ hinted[limited.ip].ever[1].due <= clock
    /\ hinted[limited.ip].pending = << >>
    /\ Len(admitted[limited.ip]) >= 2
    /\ admitted[limited.ip][Len(admitted[limited.ip])] = clock
    /\ \A i \in 1..(Len(admitted[limited.ip]) - 1) :
          admitted[limited.ip][i] <= hinted[limited.ip].ever[1].at


\* ---- C30 ----

\* the admitted requests of an address that are inside the window now
AdmittedRecent(ip) == filterRecent(admitted[ip], clock - windowMs)

\* C30: the read, filter, check and append on the list of an address run without
\* another request's in between: under requests of one address that arrive together
\* every admitted request inside the window is in the count of the address, and the
\* admitted requests inside the window never exceed maxRequests
C30_NoLostAdmission ==
    \A ip \in Ips :
        /\ filterRecent(mapGet(requests, ip), clock - windowMs) = AdmittedRecent(ip)
        /\ Len(AdmittedRecent(ip)) <= maxRequests

\* two requests of one address arrived together, before the middleware ran for
\* either; the first filled the window and the second was rejected on that count
C30_Witness ==
    /\ \A p \in {1, 2} : inflight[p] # << >> /\ inflight[p][1].handled
    /\ inflight[1][1].ip = inflight[2][1].ip
    /\ inflight[1][1].seen = inflight[2][1].seen
    /\ mapGet(inflight[1][1].seen, inflight[1][1].ip) = << >>
    /\ Len(AdmittedRecent(inflight[1][1].ip)) = maxRequests
    /\ maxRequests = 1
    /\ limited.ip = inflight[1][1].ip /\ limited.answer.status = 429
    /\ limited.at = clock


\* ---- C31 ----

\* C31: every request that reaches the register, login or refresh handler has first
\* passed through the rate limiter, on every path under which the auth routes are
\* mounted: under /auth and at the root of the api router, under /api and /user
C31_LimiterBeforeHandler ==
    routed.handler \in PublicRoutes => routed.limiter

\* under /auth the handler is reached only after the limiter has run
LimiterBeforeHandlerUnderAuth ==
    (routed.handler \in PublicRoutes /\ routed.prefix = "/auth") => routed.limiter


\* ---- C32 ----

\* the gate sent a response and did not call next(), or called next() once and sent
\* nothing
AnsweredOrPassed ==
    passage.gate = "verifyToken" =>
        \/ passage.next = 1 /\ passage.response = NoResponse
        \/ passage.next = 0 /\ passage.response # NoResponse

\* the response of the handler of a route for this user
HandlerResponse(route, user) ==
    IF route = "/logout" THEN logout(NODE_ENV)
    ELSE IF route = "/verify" THEN verifyTokenEndpoint(user)
    ELSE IF route = "/protected" THEN protectedRoute(user)
    ELSE getProfile(user)

\* the row of the table this user was read from: findById selects id, email and
\* created_at
InStore(user, table) ==
    \E row \in table : /\ row.id = user.id /\ row.email = user.email
                       /\ row.created_at = user.created_at

\* a request to a route behind the gate: when the gate has answered, its response is
\* the response of the exchange; when the handler has run, req.user is a row of the
\* table as it was when the token was verified
GatedStep ==
    (last' # last /\ last'.op \in AllGatedRoutes) =>
        /\ passage'.gate = "verifyToken"
        /\ passage'.next = 0 => last'.response = passage'.response
        /\ passage'.next = 1 =>
              /\ passage'.user # << >>
              /\ InStore(passage'.user[1], users)
              /\ last'.response = HandlerResponse(last'.op, passage'.user[1])

\* C32: for every request through the verifyToken gate exactly one of two things
\* happens, a response is sent or next is called once; and whenever a handler behind
\* the gate (getProfile, logout, the verify endpoint, /protected) runs, req.user is a
\* user that was in the store when the token was verified
C32_GateAnswersOrPassesUser == []AnsweredOrPassed /\ [][GatedStep]_vars

\* a handler behind the gate ran for the user of a good token
C32_Witness ==
    /\ last.op \in ProfileRoutes
    /\ passage.gate = "verifyToken" /\ passage.next = 1 /\ passage.response = NoResponse
    /\ passage.request = last.request
    /\ passage.user # << >> /\ InStore(passage.user[1], users)
    /\ last.response.status = 200
    /\ last.response.body.user = << toSafeObject(passage.user[1]) >>


\* ---- C33 ----

\* the messages of the errors of the store
StoreMessages == { PgConnectionError.message, PgUniqueViolation.message }

\* the response carries neither a stack trace or error message nor a message of the
\* store
NoDetailIn(response) ==
    /\ response.body.error = << >>
    /\ response.body.message \notin StoreMessages

\* C33: outside development mode (every NODE_ENV other than 'development': production,
\* local, unset) no response body carries internal error detail, neither a stack
\* trace nor the message of an internal or store error
C33_NoInternalDetailOutsideDevelopment ==
    NODE_ENV # "development" =>
        /\ \A p \in Procs : NoDetailIn(reg[p].response)
        /\ NoDetailIn(last.response)

\* the controllers and the gate keep the detail to development: what is left is the
\* answer of the global error handler
NoDetailFromHandlers ==
    NODE_ENV # "development" =>
        /\ \A p \in Procs : NoDetailIn(reg[p].response)
        /\ NoDetailIn(last.response) \/ last.response = errorHandler(NODE_ENV, EntityParseFailed)


\* ---- C34 ----

EmailViolated(data) == Falsy(data.email) \/ ~validateEmail(data.email)
PasswordViolated(data) == ~validatePassword(data.password).valid

\* the fields that are violated, email first
ViolatedFields(data) ==
    (IF EmailViolated(data) THEN << "email" >> ELSE << >>)
    \o (IF PasswordViolated(data) THEN << "password" >> ELSE << >>)

FieldsOf(errors) == [i \in 1..Len(errors) |-> errors[i].field]

\* the registration kept last was answered with one entry per violated field
EveryViolatedFieldListed ==
    (last.op = "/register" /\ ViolatedFields(last.credentials) # << >>) =>
        /\ last.response.status = 400
        /\ last.response.body.message = "Validation failed"
        /\ FieldsOf(last.response.body.errors) = ViolatedFields(last.credentials)

\* a registration with a violated field is answered at once and leaves the table as
\* it is, whether the store is up or down and whatever it holds
AnsweredWithoutStore ==
    \A p \in Procs :
        (last' # last /\ last'.op = "/register" /\ reg' # reg
         /\ reg'[p] # reg[p] /\ ViolatedFields(last'.credentials) # << >>) =>
            /\ reg'[p].pc = "done"
            /\ reg'[p].caught.name = "ValidationError"
            /\ reg'[p].caught.message = "Validation failed"
            /\ users' = users /\ registered' = registered

\* C34: register validation reports every violated field, not just the first: with
\* the email and the password both invalid the ValidationError has one entry for
\* 'email' and one for 'password', with exactly one invalid it has exactly that entry,
\* and the store is never consulted when an entry is present
C34_EveryViolatedFieldReported ==
    []EveryViolatedFieldListed /\ [][AnsweredWithoutStore]_vars

\* both fields invalid, answered with both entries while the store was down
C34_Witness ==
    /\ last.op = "/register" /\ ~last.dbOk
    /\ ViolatedFields(last.credentials) = << "email", "password" >>
    /\ FieldsOf(last.response.body.errors) = << "email", "password" >>


\* ---- C35 ----

\* the login kept last had a well-formed email and a password that is not empty
LoginWithSomePassword ==
    /\ last.op = "login"
    /\ validateEmail(last.credentials.email)
    /\ ~Falsy(last.credentials.password)

\* the row the lookup returned holds the hash of the password sent
HashMatches == last.found # << >> /\ verifyPassword(last.found[1], last.credentials.password)

\* C35: login never rejects on password length: with a well-formed email and any
\* password that is not empty, shorter than MinPasswordLength and longer than
\* MaxPasswordLength included, login passes validation and its outcome is decided by
\* the lookup and the hash check alone: success, or the AuthenticationError
C35_LoginIgnoresPasswordLength ==
    LoginWithSomePassword =>
        /\ last.response.body.errors = << >>
        /\ last.response.status \in { 200, 401 }
        /\ last.response.status = 200 <=> HashMatches
        /\ last.response.status = 401 =>
              last.response.body.message = "Invalid email or password"

\* a registered address logs in with a password longer than registration allows and
\* is told that the credentials are wrong, not that the password is invalid
C35_Witness ==
    /\ LoginWithSomePassword
    /\ Len(last.credentials.password.s) > MaxPasswordLength
    /\ last.found # << >> /\ last.dbOk
    /\ last.response.status = 401
    /\ last.response.body.errors = << >>

=============================================================================
